---- MODULE Spec2Model ----
\* Model of the scraping core of src/src/scraping:
\*  - batch.rs: BatchProcessor::process_batch, process_sequential and
\*    process_item_with_retry, with the tokio semaphore as admission gate,
\*    as a state machine (Spec, LiveSpec);
\*  - batch.rs chunk_items, extractor.rs and transformer.rs: synchronous
\*    functions, each applied to inputs drawn from bounded sets
\*    (ChunkSpec, ExtractSpec, TransformSpec).
EXTENDS Integers, Sequences, FiniteSets, TLC

\* ---------------------------------------------------------------- bounds
MaxItems == 2
MaxConcurrent == 2
MaxRetry == 2

\* ---------------------------------------------------------------- data
\* Option<String>: None is the empty sequence, Some(s) the one-element one.
None == << >>
Some(s) == << s >>

\* enum ProcessingStatus
ProcessingStatus == {"Pending", "Processing", "Success", "Failed", "Skipped"}

\* enum BatchError, as far as the batch processor builds or receives it.
ProcessingError(m) == [type |-> "ProcessingError", msg |-> m]
TimeoutError == [type |-> "TimeoutError", msg |-> ""]
ChannelError(m) == [type |-> "ChannelError", msg |-> m]

\* The #[error(...)] Display strings of BatchError.
to_string(e) ==
    CASE e.type = "ProcessingError" -> "Processing error: " \o e.msg
      [] e.type = "RateLimitExceeded" -> "Rate limit exceeded"
      [] e.type = "TimeoutError" -> "Timeout error"
      [] e.type = "ChannelError" -> "Channel error: " \o e.msg

\* struct ProcessingItem (data is carried along untouched and left out).
Item(id, status, error) == [id |-> id, status |-> status, error |-> error]

\* The items a caller submits: ids 1..n, Pending, no error.
Submitted(n) == [i \in 1..n |-> Item(i, "Pending", None)]

\* ---------------------------------------------------------------- processor_fn
\* What one call of the caller's processor_fn can do with the item it is given.
Behaviours ==
    {"same", "success", "failed_msg", "failed_none", "skipped",
     "err_processing", "err_timeout", "panic"}

Ok(x) == [kind |-> "Ok", item |-> x]
Err(e) == [kind |-> "Err", err |-> e]
Panic == [kind |-> "Panic"]

Apply(beh, item) ==
    CASE beh = "same" -> Ok(item)
      [] beh = "success" -> Ok([item EXCEPT !.status = "Success"])
      [] beh = "failed_msg" ->
            Ok([item EXCEPT !.status = "Failed", !.error = Some("bad")])
      [] beh = "failed_none" -> Ok([item EXCEPT !.status = "Failed"])
      [] beh = "skipped" -> Ok([item EXCEPT !.status = "Skipped"])
      [] beh = "err_processing" -> Err(ProcessingError("x"))
      [] beh = "err_timeout" -> Err(TimeoutError)
      [] beh = "panic" -> Panic

\* ---------------------------------------------------------------- state
VARIABLES
    config,       \* BatchConfig: max_concurrent, retry_count, continue_on_error
    n,            \* items.len()
    mode,         \* which entry points the caller uses on the same items
    memo,         \* deterministic processor_fn: the behaviour fixed per item id
    permits,      \* free permits of self.semaphore
    bpc,          \* process_batch: "idle", "spawn", "drain", "done"
    spawned,      \* handles.len()
    cursor,       \* index of the handle being awaited
    results, processed, failed, skipped,   \* locals of process_batch
    bret,         \* what process_batch returned
    task,         \* the spawned tasks: st, item, attempt, out
    invocations,  \* calls of processor_fn per item made by process_batch
    exhaustedBy,  \* the Err of processor_fn on which a task gave up, if any
    completed,    \* ids of the tasks in the order they finished
    spc,          \* process_sequential: "idle", "delay", "call", "done"
    scursor, sresults, sprocessed, sfailed, sret,
    call,         \* the synchronous library call under way: fn and arguments
    ret,          \* what that call returned
    regex_cache   \* DataExtractor::regex_cache: the Mutex and its HashMap

vars == << config, n, mode, memo, permits, bpc, spawned, cursor, results,
           processed, failed, skipped, bret, task, invocations, exhaustedBy,
           completed, spc, scursor, sresults, sprocessed, sfailed, sret,
           call, ret, regex_cache >>

batchVars == << permits, bpc, spawned, cursor, results, processed, failed,
                skipped, bret, task, invocations, exhaustedBy, completed >>
seqVars == << spc, scursor, sresults, sprocessed, sfailed, sret >>
libVars == << call, ret, regex_cache >>

NotReturned == [kind |-> "None"]

\* No synchronous library call is being made.
NoCall == [fn |-> "none"]

\* Arc::new(Mutex::new(HashMap::new())): nobody holds the lock, no entry.
EmptyCache == [guard |-> None, map |-> << >>]

\* A processor_fn that is a function of the item alone answers the same way
\* every time it is given the same item id.
Deterministic == mode = "both"

\* Every variable of the batch processor before any call is made.
AtRest ==
    /\ memo = [i \in 1..n |-> "unset"]
    /\ permits = config.max_concurrent
    /\ bpc = "idle"
    /\ spawned = 0
    /\ cursor = 1
    /\ results = << >>
    /\ processed = 0
    /\ failed = 0
    /\ skipped = 0
    /\ bret = NotReturned
    /\ task = [i \in 1..n |->
                 [st |-> "unspawned", item |-> Submitted(n)[i], attempt |-> 0,
                  out |-> NotReturned]]
    /\ invocations = [i \in 1..n |-> 0]
    /\ exhaustedBy = [i \in 1..n |-> None]
    /\ completed = << >>
    /\ spc = "idle"
    /\ scursor = 1
    /\ sresults = << >>
    /\ sprocessed = 0
    /\ sfailed = 0
    /\ sret = NotReturned

Init ==
    /\ n \in 0..MaxItems
    /\ mode \in {"batch", "sequential", "both"}
    \* rate_limit is read by process_sequential alone: it is left at the
    \* default Some(..) unless process_sequential is what is being run.
    /\ config \in [max_concurrent : 0..MaxConcurrent,
                   retry_count : 0..MaxRetry,
                   continue_on_error : BOOLEAN,
                   rate_limit : IF mode = "sequential" THEN BOOLEAN
                                ELSE {TRUE}]
    /\ AtRest
    /\ call = NoCall
    /\ ret = NotReturned
    /\ regex_cache = EmptyCache

\* ---------------------------------------------------------------- helpers
\* success_rate as the exact fraction num/den that the f64 expression
\* (processed / total) * 100.0 denotes; 0.0 for an empty batch.
SuccessRate(done, total) ==
    IF total > 0 THEN [num |-> done * 100, den |-> total]
    ELSE [num |-> 0, den |-> 1]

BatchResult(total, p, f, s, rs) ==
    [total_items |-> total, processed_items |-> p, failed_items |-> f,
     skipped_items |-> s, success_rate |-> SuccessRate(p, total),
     results |-> rs]

\* process_item_with_retry: `if attempt >= retry_count`, after attempt += 1.
RetryExhausted(attempt, retry_count) == attempt >= retry_count

\* MarkFailed that leaves the error field as it was.
MarkFailedNoError(item, e) == [item EXCEPT !.status = "Failed"]

\* process_item_with_retry: the item returned once the retries are used up.
MarkFailed(item, e) ==
    [item EXCEPT !.status = "Failed", !.error = Some(to_string(e))]

UnwrapOr(opt, dflt) == IF opt = None THEN dflt ELSE opt[1]

\* Ok(BatchResult { .. }) as returned by the two entry points.
RetOk(r) == [kind |-> "Ok", result |-> r]

\* What a finished task hands to its JoinHandle.
TaskOk(item) == [kind |-> "Ok", item |-> item]
TaskErr(e) == [kind |-> "Err", err |-> e]
JoinError == [kind |-> "JoinError"]

\* Push that puts the item in front.
PushFront(rs, item) == << item >> \o rs

\* results.push(item)
Push(rs, item) == Append(rs, item)

\* OnItem that counts as skipped only the items whose status is Skipped.
OnItemSkippedOnly(item, acc, continue_on_error) ==
    IF item.status = "Success"
    THEN [acc EXCEPT !.processed = @ + 1, !.results = Push(@, item)]
    ELSE IF item.status = "Skipped"
    THEN [acc EXCEPT !.skipped = @ + 1, !.results = Push(@, item)]
    ELSE IF ~continue_on_error
    THEN [acc EXCEPT !.failed = @ + 1,
            !.ret = Err(ProcessingError(
                        UnwrapOr(item.error, "Unknown error")))]
    ELSE [acc EXCEPT !.failed = @ + 1, !.results = Push(@, item)]

\* The arm Ok(Ok(item)) of the match on handle.await: acc holds the locals
\* processed, failed, skipped, results; ret is the early return, if any.
OnItem(item, acc, continue_on_error) ==
    IF item.status = "Success"
    THEN [acc EXCEPT !.processed = @ + 1, !.results = Push(@, item)]
    ELSE IF item.status = "Failed"
    THEN IF ~continue_on_error
         THEN [acc EXCEPT !.failed = @ + 1,
                 !.ret = Err(ProcessingError(
                             UnwrapOr(item.error, "Unknown error")))]
         ELSE [acc EXCEPT !.failed = @ + 1, !.results = Push(@, item)]
    ELSE [acc EXCEPT !.skipped = @ + 1, !.results = Push(@, item)]

\* The arm Ok(Err(e)): the task returned an error of its own.
OnTaskErr(e, acc, continue_on_error) ==
    IF ~continue_on_error
    THEN [acc EXCEPT !.failed = @ + 1, !.ret = Err(e)]
    ELSE [acc EXCEPT !.failed = @ + 1]

\* OnJoinError without `failed += 1`.
OnJoinErrorUncounted(acc, continue_on_error) ==
    IF ~continue_on_error
    THEN [acc EXCEPT !.ret = Err(ChannelError("task panicked"))]
    ELSE acc

\* OnJoinError that never returns early.
OnJoinErrorTolerated(acc, continue_on_error) == [acc EXCEPT !.failed = @ + 1]

\* The arm Err(e): the task could not be joined (it panicked).
OnJoinError(acc, continue_on_error) ==
    IF ~continue_on_error
    THEN [acc EXCEPT !.failed = @ + 1,
                     !.ret = Err(ChannelError("task panicked"))]
    ELSE [acc EXCEPT !.failed = @ + 1]

\* One iteration of `for handle in handles { match handle.await {...} }`.
DrainStep(out, acc, continue_on_error) ==
    CASE out.kind = "Ok" -> OnItem(out.item, acc, continue_on_error)
      [] out.kind = "Err" -> OnTaskErr(out.err, acc, continue_on_error)
      [] out.kind = "JoinError" -> OnJoinError(acc, continue_on_error)

\* The arm Ok(result_item) of the match in process_sequential.
OnSeqItem(item, acc, continue_on_error) ==
    IF item.status = "Success"
    THEN [acc EXCEPT !.processed = @ + 1, !.results = Push(@, item)]
    ELSE IF ~continue_on_error
    THEN [acc EXCEPT !.failed = @ + 1,
            !.ret = Err(ProcessingError(
                        UnwrapOr(item.error, "Unknown error")))]
    ELSE [acc EXCEPT !.failed = @ + 1, !.results = Push(@, item)]

\* OnSeqErr that returns the error whatever continue_on_error says.
OnSeqErrAlwaysAbort(e, acc, continue_on_error) ==
    [acc EXCEPT !.failed = @ + 1, !.ret = Err(e)]

\* The arm Err(e) of the match in process_sequential.
OnSeqErr(e, acc, continue_on_error) ==
    IF ~continue_on_error
    THEN [acc EXCEPT !.failed = @ + 1, !.ret = Err(e)]
    ELSE [acc EXCEPT !.failed = @ + 1]

\* One iteration of the loop of process_sequential on the outcome of
\* processor_fn(item).await (a panic unwinds through the caller).
SeqStep(o, acc, continue_on_error) ==
    CASE o.kind = "Ok" -> OnSeqItem(o.item, acc, continue_on_error)
      [] o.kind = "Err" -> OnSeqErr(o.err, acc, continue_on_error)
      [] o.kind = "Panic" -> [acc EXCEPT !.ret = Panic]

\* The behaviours processor_fn may show on item id: any, unless it is a
\* function of the item and has answered for this id before.
Allowed(id) ==
    IF Deterministic /\ memo[id] # "unset" THEN {memo[id]} ELSE Behaviours

Remember(id, beh) ==
    IF Deterministic THEN [memo EXCEPT ![id] = beh] ELSE memo

\* ---------------------------------------------------------------- process_batch
\* Entry of process_batch up to the spawn loop.
CallBatch ==
    /\ bpc = "idle"
    /\ mode = "batch" \/ (mode = "both" /\ spc = "done")
    /\ bpc' = "spawn"
    /\ UNCHANGED << config, n, mode, memo, permits, spawned, cursor, results,
                    processed, failed, skipped, bret, task, invocations,
                    exhaustedBy, completed >>
    /\ UNCHANGED << seqVars, libVars >>

\* for item in items { handles.push(tokio::spawn(...)) }
Spawn ==
    /\ bpc = "spawn"
    /\ spawned < n
    /\ spawned' = spawned + 1
    /\ task' = [task EXCEPT ![spawned + 1].st = "acquire"]
    /\ UNCHANGED << config, n, mode, memo, permits, bpc, cursor, results,
                    processed, failed, skipped, bret, invocations, exhaustedBy,
                    completed >>
    /\ UNCHANGED << seqVars, libVars >>

\* The spawn loop is over; the locals of the drain loop are initialised.
StartDrain ==
    /\ bpc = "spawn"
    /\ spawned = n
    /\ bpc' = "drain"
    /\ UNCHANGED << config, n, mode, memo, permits, spawned, cursor, results,
                    processed, failed, skipped, bret, task, invocations,
                    exhaustedBy, completed >>
    /\ UNCHANGED << seqVars, libVars >>

\* Tasks aborted once process_batch has returned.
AbortedOnReturn(i) == bret = NotReturned

\* tokio::spawn: the runtime polls task i whether or not its JoinHandle is
\* still held; a handle dropped by an early return detaches the task.
Scheduled(i) == TRUE

\* Acquire without waiting for a free permit.
AcquireUngated(i) ==
    /\ task[i].st = "acquire"
    /\ permits' = permits - 1
    /\ task' = [task EXCEPT ![i].st = "running",
                            ![i].item.status = "Processing"]
    /\ invocations' = [invocations EXCEPT ![i] = @ + 1]
    /\ UNCHANGED << config, n, mode, memo, bpc, spawned, cursor, results,
                    processed, failed, skipped, bret, exhaustedBy, completed >>
    /\ UNCHANGED << seqVars, libVars >>

\* semaphore.acquire().await succeeds; the task enters the retry loop, sets
\* item.status = Processing and calls processor_fn(item.clone()).
Acquire(i) ==
    /\ Scheduled(i)
    /\ task[i].st = "acquire"
    /\ permits > 0
    /\ permits' = permits - 1
    /\ task' = [task EXCEPT ![i].st = "running",
                            ![i].item.status = "Processing"]
    /\ invocations' = [invocations EXCEPT ![i] = @ + 1]
    /\ UNCHANGED << config, n, mode, memo, bpc, spawned, cursor, results,
                    processed, failed, skipped, bret, exhaustedBy, completed >>
    /\ UNCHANGED << seqVars, libVars >>

\* The state of task i after processor_fn answered with outcome o.
AfterCall(t, o, retry_count) ==
    CASE o.kind = "Ok" -> [t EXCEPT !.st = "finished", !.out = TaskOk(o.item)]
      [] o.kind = "Err" ->
           IF RetryExhausted(t.attempt + 1, retry_count)
           THEN [t EXCEPT !.attempt = @ + 1, !.st = "finished",
                          !.item = MarkFailed(t.item, o.err),
                          !.out = TaskOk(MarkFailed(t.item, o.err))]
           ELSE [t EXCEPT !.attempt = @ + 1, !.st = "sleeping"]
      [] o.kind = "Panic" -> [t EXCEPT !.st = "finished", !.out = JoinError]

\* Released with the permit kept when the task ends on a failure.
ReleasedOnSuccessOnly(t) ==
    IF t.st = "finished" /\ t.out.kind = "Ok" /\ t.out.item.status # "Failed"
    THEN 1 ELSE 0

\* The permits task t gives back at this point: `_permit` is dropped when the
\* async block returns or unwinds, whatever the outcome.
Released(t) == IF t.st = "finished" THEN 1 ELSE 0

\* processor_fn(item.clone()).await completes in task i.
Complete(i) ==
    /\ Scheduled(i)
    /\ task[i].st = "running"
    /\ \E beh \in Allowed(i) :
         LET o == Apply(beh, task[i].item)
             t == AfterCall(task[i], o, config.retry_count)
         IN /\ task' = [task EXCEPT ![i] = t]
            /\ memo' = Remember(i, beh)
            /\ exhaustedBy' = IF o.kind = "Err" /\ t.st = "finished"
                              THEN [exhaustedBy EXCEPT ![i] = Some(o.err)]
                              ELSE exhaustedBy
            /\ permits' = permits + Released(t)
            /\ completed' = IF t.st = "finished" THEN Append(completed, i)
                            ELSE completed
    /\ UNCHANGED << config, n, mode, bpc, spawned, cursor, results,
                    processed, failed, skipped, bret, invocations >>
    /\ UNCHANGED << seqVars, libVars >>

\* tokio::time::sleep(retry_delay).await is over: next turn of the loop.
Wake(i) ==
    /\ Scheduled(i)
    /\ task[i].st = "sleeping"
    /\ task' = [task EXCEPT ![i].st = "running",
                            ![i].item.status = "Processing"]
    /\ invocations' = [invocations EXCEPT ![i] = @ + 1]
    /\ UNCHANGED << config, n, mode, memo, permits, bpc, spawned, cursor,
                    results, processed, failed, skipped, bret, exhaustedBy,
                    completed >>
    /\ UNCHANGED << seqVars, libVars >>

\* handle.await of the next handle, in the order the handles were pushed.
Drain ==
    /\ bpc = "drain"
    /\ cursor <= n
    /\ task[cursor].st = "finished"
    /\ LET acc == DrainStep(task[cursor].out,
                     [processed |-> processed, failed |-> failed,
                      skipped |-> skipped, results |-> results,
                      ret |-> NotReturned],
                     config.continue_on_error)
       IN /\ processed' = acc.processed
          /\ failed' = acc.failed
          /\ skipped' = acc.skipped
          /\ results' = acc.results
          /\ bret' = acc.ret
          /\ bpc' = IF acc.ret = NotReturned THEN "drain" ELSE "done"
    /\ cursor' = cursor + 1
    /\ UNCHANGED << config, n, mode, memo, permits, spawned, task,
                    invocations, exhaustedBy, completed >>
    /\ UNCHANGED << seqVars, libVars >>

\* Every handle is drained: Ok(BatchResult { .. }).
ReturnOk ==
    /\ bpc = "drain"
    /\ cursor > n
    /\ bpc' = "done"
    /\ bret' = RetOk(BatchResult(n, processed, failed, skipped, results))
    /\ UNCHANGED << config, n, mode, memo, permits, spawned, cursor, results,
                    processed, failed, skipped, task, invocations, exhaustedBy,
                    completed >>
    /\ UNCHANGED << seqVars, libVars >>

\* ---------------------------------------------------------------- process_sequential
CallSequential ==
    /\ spc = "idle"
    /\ mode \in {"sequential", "both"}
    /\ spc' = "loop"
    /\ UNCHANGED << config, n, mode, memo, scursor, sresults, sprocessed,
                    sfailed, sret >>
    /\ UNCHANGED << batchVars, libVars >>

\* Top of `for item in items`: the flat rate-limit delay, if configured.
SeqNext ==
    /\ spc = "loop"
    /\ scursor <= n
    /\ spc' = IF config.rate_limit THEN "delay" ELSE "call"
    /\ UNCHANGED << config, n, mode, memo, scursor, sresults, sprocessed,
                    sfailed, sret >>
    /\ UNCHANGED << batchVars, libVars >>

SeqWake ==
    /\ spc = "delay"
    /\ spc' = "call"
    /\ UNCHANGED << config, n, mode, memo, scursor, sresults, sprocessed,
                    sfailed, sret >>
    /\ UNCHANGED << batchVars, libVars >>

\* processor_fn(item).await on the item as submitted, and the match on it.
SeqComplete ==
    /\ spc = "call"
    /\ \E beh \in Allowed(scursor) :
         LET acc == SeqStep(Apply(beh, Submitted(n)[scursor]),
                       [processed |-> sprocessed, failed |-> sfailed,
                        results |-> sresults, ret |-> NotReturned],
                       config.continue_on_error)
         IN /\ sprocessed' = acc.processed
            /\ sfailed' = acc.failed
            /\ sresults' = acc.results
            /\ sret' = acc.ret
            /\ spc' = IF acc.ret = NotReturned THEN "loop" ELSE "done"
            /\ memo' = Remember(scursor, beh)
    /\ scursor' = scursor + 1
    /\ UNCHANGED << config, n, mode >>
    /\ UNCHANGED << batchVars, libVars >>

SeqReturnOk ==
    /\ spc = "loop"
    /\ scursor > n
    /\ spc' = "done"
    /\ sret' = RetOk(BatchResult(n, sprocessed, sfailed, 0, sresults))
    /\ UNCHANGED << config, n, mode, memo, scursor, sresults, sprocessed,
                    sfailed >>
    /\ UNCHANGED << batchVars, libVars >>

\* ---------------------------------------------------------------- specification
Next ==
    \/ CallBatch
    \/ Spawn
    \/ StartDrain
    \/ \E i \in 1..n : Acquire(i)
    \/ \E i \in 1..n : Complete(i)
    \/ \E i \in 1..n : Wake(i)
    \/ Drain
    \/ ReturnOk
    \/ CallSequential
    \/ SeqNext
    \/ SeqWake
    \/ SeqComplete
    \/ SeqReturnOk

Spec == Init /\ [][Next]_vars

\* ---------------------------------------------------------------- synchronous calls
\* The batch processor while only a synchronous function of the library is
\* exercised: no batch, nothing spawned.
Parked ==
    /\ n = 0
    /\ mode = "batch"
    /\ config = [max_concurrent |-> 0, retry_count |-> 0,
                 continue_on_error |-> TRUE, rate_limit |-> TRUE]
    /\ AtRest
    /\ regex_cache = EmptyCache

processorVars == << config, n, mode, memo, batchVars, seqVars >>
parkedVars == << processorVars, regex_cache >>

\* Ok(v) / Err(e) of a synchronous call; a panic unwinds to the caller.
Success(v) == [kind |-> "Ok", val |-> v]

Min(a, b) == IF a < b THEN a ELSE b

\* ---------------------------------------------------------------- chunk_items
MaxChunkItems == 12
MaxChunkSize == 6
\* test_chunk_items: 250 items, the default batch_size of 100.
TestChunkItems == 250
DefaultBatchSize == 100

\* The items (0..k).map(|i| ProcessingItem { id: i.to_string(), .. }).
Ids(k) == [i \in 1..k |-> i - 1]

\* slice::chunks_exact: the incomplete last chunk is dropped.
RECURSIVE ChunksExact(_, _)
ChunksExact(items, size) ==
    IF Len(items) < size THEN << >>
    ELSE << SubSeq(items, 1, size) >>
         \o ChunksExact(SubSeq(items, size + 1, Len(items)), size)

\* slice::chunks(size) for size > 0: consecutive runs of size elements, the
\* last one holding what is left.
RECURSIVE Chunks(_, _)
Chunks(items, size) ==
    IF items = << >> THEN << >>
    ELSE << SubSeq(items, 1, Min(size, Len(items))) >>
         \o Chunks(SubSeq(items, Min(size, Len(items)) + 1, Len(items)), size)

\* BatchProcessor::chunk_items with self.config.batch_size = batch_size;
\* slice::chunks panics on a chunk size of 0.
chunk_items(items, batch_size) ==
    IF batch_size = 0 THEN Panic
    ELSE Success(Chunks(items, batch_size))

ChunkCalls ==
    {[fn |-> "chunk_items", items |-> Ids(k), batch_size |-> b] :
        k \in 0..MaxChunkItems, b \in 0..MaxChunkSize}
    \cup {[fn |-> "chunk_items", items |-> Ids(TestChunkItems),
           batch_size |-> DefaultBatchSize]}

ChunkInit == Parked /\ call \in ChunkCalls /\ ret = NotReturned

ChunkItemsCall ==
    /\ call.fn = "chunk_items"
    /\ ret = NotReturned
    /\ ret' = chunk_items(call.items, call.batch_size)
    /\ UNCHANGED << call, parkedVars >>

ChunkNext == ChunkItemsCall

ChunkSpec == ChunkInit /\ [][ChunkNext]_vars

\* ---------------------------------------------------------------- strings and JSON values
\* A Rust string is the sequence of its characters.  The literals the
\* extractor compares against or builds from:
S_extracted_ == << "e", "x", "t", "r", "a", "c", "t", "e", "d", "_" >>
S_trim == << "t", "r", "i", "m" >>
S_lowercase == << "l", "o", "w", "e", "r", "c", "a", "s", "e" >>
S_uppercase == << "u", "p", "p", "e", "r", "c", "a", "s", "e" >>
S_remove_whitespace ==
    << "r", "e", "m", "o", "v", "e", "_", "w", "h", "i", "t", "e", "s", "p",
       "a", "c", "e" >>
S_regex_ == << "r", "e", "g", "e", "x", ":" >>
S_replace_ == << "r", "e", "p", "l", "a", "c", "e", ":" >>
S_null == << "n", "u", "l", "l" >>
S_true == << "t", "r", "u", "e" >>
S_yes == << "y", "e", "s" >>

Lower ==
    << "a", "b", "c", "d", "e", "i", "l", "n", "o", "r", "s", "t", "u", "x",
       "y" >>
Upper ==
    << "A", "B", "C", "D", "E", "I", "L", "N", "O", "R", "S", "T", "U", "X",
       "Y" >>
Digits == << "0", "1", "2", "3", "4", "5", "6", "7", "8", "9" >>

IndexOf(c, cs) == CHOOSE k \in 1..Len(cs) : cs[k] = c
Among(c, cs) == \E k \in 1..Len(cs) : cs[k] = c

\* str::to_uppercase / str::to_lowercase
to_uppercase(s) ==
    [i \in 1..Len(s) |->
        IF Among(s[i], Lower) THEN Upper[IndexOf(s[i], Lower)] ELSE s[i]]
to_lowercase(s) ==
    [i \in 1..Len(s) |->
        IF Among(s[i], Upper) THEN Lower[IndexOf(s[i], Upper)] ELSE s[i]]

\* str::trim (the only whitespace of the alphabet is the space)
RECURSIVE trim_start(_)
trim_start(s) ==
    IF s # << >> /\ Head(s) = " " THEN trim_start(Tail(s)) ELSE s
RECURSIVE trim_end(_)
trim_end(s) ==
    IF s # << >> /\ s[Len(s)] = " " THEN trim_end(SubSeq(s, 1, Len(s) - 1))
    ELSE s
trim(s) == trim_end(trim_start(s))

starts_with(s, prefix) ==
    Len(s) >= Len(prefix) /\ SubSeq(s, 1, Len(prefix)) = prefix

\* str::contains for a plain pattern
contains(s, pat) ==
    \E i \in 1..(Len(s) - Len(pat) + 1) : SubSeq(s, i, i + Len(pat) - 1) = pat

\* str::replace(from, to): every non-overlapping match, left to right (an
\* empty from matches before every character and at the end).
RECURSIVE replace(_, _, _)
replace(s, from, to) ==
    IF from = << >>
    THEN IF s = << >> THEN to
         ELSE to \o << Head(s) >> \o replace(Tail(s), from, to)
    ELSE IF Len(s) < Len(from) THEN s
    ELSE IF starts_with(s, from)
         THEN to \o replace(SubSeq(s, Len(from) + 1, Len(s)), from, to)
         ELSE << Head(s) >> \o replace(Tail(s), from, to)

\* str::split(sep) on a one-character separator
RECURSIVE split(_, _)
split(s, sep) ==
    IF ~Among(sep, s) THEN << s >>
    ELSE LET k == CHOOSE i \in 1..Len(s) :
                     s[i] = sep /\ \A j \in 1..(i - 1) : s[j] # sep
         IN << SubSeq(s, 1, k - 1) >> \o split(SubSeq(s, k + 1, Len(s)), sep)

\* str::parse::<i64>: an optional sign and at least one digit (the strings
\* of the model are far too short to overflow).
RECURSIVE DigitsValue(_)
DigitsValue(s) ==
    IF s = << >> THEN 0
    ELSE 10 * DigitsValue(SubSeq(s, 1, Len(s) - 1))
         + (IndexOf(s[Len(s)], Digits) - 1)
parse_i64(s) ==
    LET body == IF s # << >> /\ Head(s) \in {"+", "-"} THEN Tail(s) ELSE s
    IN IF body = << >> \/ \E i \in 1..Len(body) : ~Among(body[i], Digits)
       THEN None
       ELSE Some(IF Head(s) = "-" THEN 0 - DigitsValue(body)
                 ELSE DigitsValue(body))

\* serde_json::Value
Null == [t |-> "null"]
Bool(b) == [t |-> "bool", v |-> b]
Number(i) == [t |-> "number", v |-> i]
String(s) == [t |-> "string", v |-> s]
Array(vs) == [t |-> "array", v |-> vs]
Object(m) == [t |-> "object", v |-> m]

as_str(v) == IF v.t = "string" THEN Some(v.v) ELSE None
as_i64(v) == IF v.t = "number" THEN Some(v.v) ELSE None
as_bool(v) == IF v.t = "bool" THEN Some(v.v) ELSE None

\* serde_json::Map::insert: a later insert of the same key replaces it.
Insert(m, k, v) ==
    [x \in (DOMAIN m) \cup {k} |-> IF x = k THEN v ELSE m[x]]

\* Display of a Value is its JSON text: a string is quoted, with quotes and
\* backslashes escaped.
RECURSIVE Escaped(_)
Escaped(s) ==
    IF s = << >> THEN << >>
    ELSE (IF Head(s) \in {"\"", "\\"} THEN << "\\", Head(s) >>
          ELSE << Head(s) >>) \o Escaped(Tail(s))
RECURSIVE DigitsOf(_)
DigitsOf(i) ==
    IF i < 10 THEN << Digits[i + 1] >>
    ELSE DigitsOf(i \div 10) \o << Digits[(i % 10) + 1] >>
json_text(v) ==
    CASE v.t = "string" -> << "\"" >> \o Escaped(v.v) \o << "\"" >>
      [] v.t = "null" -> S_null
      [] v.t = "bool" -> IF v.v THEN S_true ELSE << "f", "a", "l", "s", "e" >>
      [] v.t = "number" ->
            (IF v.v < 0 THEN << "-" >> \o DigitsOf(0 - v.v) ELSE DigitsOf(v.v))
            \o (IF "f64" \in DOMAIN v THEN << ".", "0" >> ELSE << >>)

\* ---------------------------------------------------------------- extractor.rs
\* enum ExtractionError; the message is kept as its format! pieces.
ValidationError(m) == [type |-> "ValidationError", msg |-> m]
PatternError(m) == [type |-> "PatternError", msg |-> m]
ConversionError(m) == [type |-> "ConversionError", msg |-> m]

\* enum DataType (Float is left out: the values of the model are integers)
DataType == {"String", "Integer", "Boolean", "DateTime", "Array", "Object"}

\* extract_raw_value: the placeholder ignores the document.
extract_raw_value(data, rule) == Success(String(S_extracted_ \o rule.name))

\* Regex::new for the patterns of the model: ".*", a pattern with an
\* unclosed group or class (a syntax error), and a pattern of ordinary
\* characters, which matches itself.
S_match_all == << ".", "*" >>
Unclosed == {"(", "["}

Regex(kind, lit) == [kind |-> kind, lit |-> lit]

Regex_new(pattern) ==
    IF pattern = S_match_all THEN Success(Regex("any", << >>))
    ELSE IF \E i \in 1..Len(pattern) : pattern[i] \in Unclosed
         THEN Err("regex parse error")
    ELSE Success(Regex("literal", pattern))

\* An invalid pattern compiled as the text it is written with.
CompileAsLiteral(pattern) == Regex("literal", pattern)

\* The closure of or_insert_with: Regex::new(pattern), or ".*" when the
\* pattern does not compile.
CompileOrFallback(pattern) ==
    LET compiled == Regex_new(pattern)
    IN IF compiled.kind = "Ok" THEN compiled.val
       ELSE Regex_new(S_match_all).val

\* Regex::is_match
is_match(regex, text) ==
    IF regex.kind = "any" THEN TRUE ELSE contains(text, regex.lit)

\* caps[0] of Regex::captures, the leftmost match: ".*" takes the text up
\* to the first line break, a literal matches itself. None of the patterns
\* has a group: caps.len() is 1.
FirstLine(text) ==
    IF Among("\n", text) THEN SubSeq(text, 1, IndexOf("\n", text) - 1)
    ELSE text

captures(regex, text) ==
    IF ~is_match(regex, text) THEN None
    ELSE IF regex.kind = "any" THEN Some(FirstLine(text))
    ELSE Some(regex.lit)

\* apply_regex after the cache lookup
RegexCapture(regex, value) ==
    LET text == UnwrapOr(as_str(value), << >>)
        caps == captures(regex, text)
    IN IF caps # None THEN Success(String(caps[1])) ELSE Success(Null)

\* validate_pattern after the cache lookup
PatternCheck(regex, value, pattern) ==
    LET text == UnwrapOr(as_str(value), << >>)
    IN IF is_match(regex, text) THEN Success("unit")
       ELSE Err(ValidationError(<< "Value '", text,
                                   "' does not match pattern '", pattern,
                                   "'" >>))

\* apply_regex and validate_pattern as a call sees them: the entry of the
\* cache for a pattern is what the closure compiled for it.
apply_regex(value, pattern) == RegexCapture(CompileOrFallback(pattern), value)

validate_pattern(value, pattern) ==
    PatternCheck(CompileOrFallback(pattern), value, pattern)

apply_transformation(value, t) ==
    LET text == UnwrapOr(as_str(value), << >>)
    IN IF t = S_trim THEN Success(String(trim(text)))
       ELSE IF t = S_lowercase THEN Success(String(to_lowercase(text)))
       ELSE IF t = S_uppercase THEN Success(String(to_uppercase(text)))
       ELSE IF t = S_remove_whitespace
            THEN Success(String(replace(text, << " " >>, << >>)))
       ELSE IF starts_with(t, S_regex_)
            THEN apply_regex(value, SubSeq(t, Len(S_regex_) + 1, Len(t)))
       ELSE IF starts_with(t, S_replace_)
            THEN LET parts == split(SubSeq(t, Len(S_replace_) + 1, Len(t)),
                                    ":")
                 IN IF Len(parts) >= 2
                    THEN Success(String(replace(text, parts[1], parts[2])))
                    ELSE Err(PatternError(
                             << "Invalid replace transformation: ", t >>))
       ELSE Err(PatternError(<< "Unknown transformation: ", t >>))

convert_type(value, target_type) ==
    CASE target_type = "String" -> Success(String(json_text(value)))
      [] target_type = "Integer" ->
            IF as_i64(value) # None THEN Success(Number(as_i64(value)[1]))
            ELSE IF as_str(value) # None
                 THEN IF parse_i64(as_str(value)[1]) # None
                      THEN Success(Number(parse_i64(as_str(value)[1])[1]))
                      ELSE Err(ConversionError(
                               << "Cannot convert '", as_str(value)[1],
                                  "' to integer" >>))
                 ELSE Err(ConversionError(<< "Cannot convert to integer" >>))
      [] target_type = "Boolean" ->
            IF as_bool(value) # None THEN Success(Bool(as_bool(value)[1]))
            ELSE IF as_str(value) # None
                 THEN Success(Bool(to_lowercase(as_str(value)[1])
                                     \in {S_true, << "1" >>, S_yes}))
                 ELSE Err(ConversionError(<< "Cannot convert to boolean" >>))
      [] target_type = "DateTime" ->
            IF as_str(value) # None THEN Success(String(as_str(value)[1]))
            ELSE Err(ConversionError(<< "Cannot convert to datetime" >>))
      [] target_type = "Array" -> Success(Array(<< value >>))
      [] target_type = "Object" -> Success(value)

\* for transformation in &rule.transformations { value = ..? }
RECURSIVE apply_transformations(_, _)
apply_transformations(value, ts) ==
    IF ts = << >> THEN Success(value)
    ELSE \* r, the outcome of the first transformation, is computed once.
         CHOOSE out \in
             { IF r.kind = "Err" THEN r
               ELSE apply_transformations(r.val, Tail(ts)) :
                   r \in {apply_transformation(value, Head(ts))} } : TRUE

extract_field(data, rule, cfg) ==
    LET raw == extract_raw_value(data, rule)
        transformed == apply_transformations(raw.val, rule.transformations)
    IN IF transformed.kind = "Err" THEN transformed
       ELSE LET validated ==
                    IF rule.pattern # None /\ cfg.validate_patterns
                    THEN validate_pattern(transformed.val, rule.pattern[1])
                    ELSE Success("unit")
            IN IF validated.kind = "Err" THEN validated
               ELSE convert_type(transformed.val, rule.data_type)

\* success_rate of extract
FieldSuccessRate(success_count, total) ==
    IF total > 0 THEN [num |-> success_count * 100, den |-> total]
    ELSE [num |-> 0, den |-> 1]

\* ExtractionResult (extracted_at, the wall clock, is left out)
ExtractionResult(extracted, schema, success_count, fail_count) ==
    [data |-> Object(extracted), schema_name |-> schema.name,
     fields_extracted |-> success_count, fields_failed |-> fail_count,
     success_rate |-> FieldSuccessRate(success_count,
                                       success_count + fail_count)]

\* The locals of extract before its loop; evaluated counts the calls of
\* extract_field, returned holds the error of an early return.
ExtractLocals ==
    [extracted |-> << >>, success_count |-> 0, fail_count |-> 0,
     evaluated |-> 0, returned |-> None]

\* Variants of the Err arm of extract: a failure covered by a default is not
\* counted; the default is looked at before required; a failure without a
\* default leaves a null under the rule's name.
OnFieldErrDefaultUncounted(acc, rule, e, cfg) ==
    IF rule.required /\ cfg.strict_mode
    THEN [acc EXCEPT !.fail_count = @ + 1, !.returned = Some(e)]
    ELSE IF rule.default_value # None
         THEN [acc EXCEPT !.extracted =
                              Insert(@, rule.name, rule.default_value[1])]
         ELSE [acc EXCEPT !.fail_count = @ + 1]

OnFieldErrDefaultFirst(acc, rule, e, cfg) ==
    IF rule.default_value # None
    THEN [acc EXCEPT !.fail_count = @ + 1,
                     !.extracted = Insert(@, rule.name, rule.default_value[1])]
    ELSE IF rule.required /\ cfg.strict_mode
         THEN [acc EXCEPT !.fail_count = @ + 1, !.returned = Some(e)]
         ELSE [acc EXCEPT !.fail_count = @ + 1]

OnFieldErrNullKey(acc, rule, e, cfg) ==
    IF rule.required /\ cfg.strict_mode
    THEN [acc EXCEPT !.fail_count = @ + 1, !.returned = Some(e)]
    ELSE [acc EXCEPT !.fail_count = @ + 1,
                     !.extracted =
                         Insert(@, rule.name,
                                IF rule.default_value # None
                                THEN rule.default_value[1] ELSE Null)]

\* Ok(value) arm of the match in extract
OnFieldOk(acc, rule, value) ==
    [acc EXCEPT !.extracted = Insert(@, rule.name, value),
                !.success_count = @ + 1]

\* Err(e) arm of the match in extract
OnFieldErr(acc, rule, e, cfg) ==
    IF rule.required /\ cfg.strict_mode
    THEN [acc EXCEPT !.fail_count = @ + 1, !.returned = Some(e)]
    ELSE IF rule.default_value # None
         THEN [acc EXCEPT !.fail_count = @ + 1,
                          !.extracted =
                              Insert(@, rule.name, rule.default_value[1])]
         ELSE [acc EXCEPT !.fail_count = @ + 1]

\* for rule in &schema.rules { match self.extract_field(data, rule) {..} }
RECURSIVE ExtractLoop(_, _, _, _)
ExtractLoop(data, rules, cfg, acc) ==
    IF rules = << >> \/ acc.returned # None THEN acc
    ELSE LET rule == Head(rules)
             r == extract_field(data, rule, cfg)
             seen == [acc EXCEPT !.evaluated = @ + 1]
         IN ExtractLoop(data, Tail(rules), cfg,
                        IF r.kind = "Ok" THEN OnFieldOk(seen, rule, r.val)
                        ELSE OnFieldErr(seen, rule, r.err, cfg))

extract(data, schema, cfg) ==
    LET acc == ExtractLoop(data, schema.rules, cfg, ExtractLocals)
    IN IF acc.returned # None THEN Err(acc.returned[1])
       ELSE Success(ExtractionResult(acc.extracted, schema,
                                     acc.success_count, acc.fail_count))

\* Vec::truncate
truncate(v, len) == IF Len(v) > len THEN SubSeq(v, 1, len) ELSE v

extract_multiple(data, schema, cfg) ==
    IF ~schema.multiple
    THEN Err(ValidationError(
             << "Schema is not configured for multiple extraction" >>))
    ELSE LET one == extract(data, schema, cfg)
         IN IF one.kind = "Err" THEN one
            ELSE IF cfg.max_array_size # None
                 THEN Success(truncate(<< one.val >>, cfg.max_array_size[1]))
                 ELSE Success(<< one.val >>)

\* ---------------------------------------------------------------- inputs of the extractor
MaxRules == 2
DefaultMaxArraySize == 1000

\* A document is the sequence of its elements, each with the selector that
\* matches it and its text.
Element(selector, text) == [selector |-> selector, text |-> text]
Documents ==
    { << >>,
      << Element(".item", << "1" >>), Element(".item", << "i", "d" >>) >> }

FieldRule(name, selector, data_type, transformations, pattern, required, default_value) ==
    [name |-> name, selector |-> selector, attribute |-> None,
     data_type |-> data_type, required |-> required,
     default_value |-> default_value, transformations |-> transformations,
     pattern |-> pattern]

S_strip_prefix == S_replace_ \o S_extracted_ \o << ":" >>

\* Rules taken with every combination of required and default_value: two
\* whose extraction fails (a conversion error; a pattern that the value does
\* not match, when patterns are validated) and one whose extraction succeeds.
VariedRules ==
    UNION {
      { FieldRule(<< "i", "d" >>, ".missing", "Integer", << >>, None, rq, df),
        FieldRule(<< "a", " " >>, ".item", "String",
                  << S_trim, S_uppercase >>, Some(<< "e", "x" >>), rq, df),
        FieldRule(<< "i", "d" >>, ".item", "String", << >>, None, rq, df) }
      : rq \in BOOLEAN, df \in {None, Some(Number(0))} }

\* Rules covering the other transformations and data types.
FixedRules ==
    { FieldRule(<< "1" >>, ".item", "DateTime",
                << << "s", "t", "r", "i", "p" >> >>, None, TRUE,
                Some(Number(0))),
      FieldRule(<< "a", " " >>, ".missing", "Object",
                << S_lowercase, S_replace_ \o << "x" >> >>, None, FALSE, None),
      FieldRule(<< "1" >>, ".item", "Integer", << S_strip_prefix >>, None,
                TRUE, None),
      FieldRule(<< "1" >>, ".missing", "Boolean",
                << S_strip_prefix, S_remove_whitespace >>, None, FALSE, None),
      FieldRule(<< "a", " " >>, ".item", "Array",
                << S_regex_ \o << "z", "z" >> >>, None, FALSE,
                Some(Number(0))) }

\* Rules whose validation pattern or regex: transformation is not a regular
\* expression, and one whose pattern is ".*" itself.
InvalidPatternRules ==
    { FieldRule(<< "i", "d" >>, ".item", "String", << >>, Some(<< "(" >>),
                TRUE, None),
      FieldRule(<< "i", "d" >>, ".item", "String",
                << S_regex_ \o << "[", "a" >> >>, None, TRUE, None),
      FieldRule(<< "1" >>, ".item", "Integer",
                << S_strip_prefix, S_regex_ \o << "(" >> >>,
                Some(<< "[", "a" >>), TRUE, None),
      FieldRule(<< "i", "d" >>, ".item", "String", << >>, Some(S_match_all),
                TRUE, None) }

Rules == VariedRules \cup FixedRules

RuleLists == UNION {[1..k -> Rules] : k \in 0..MaxRules}
FixedRuleLists == UNION {[1..k -> FixedRules] : k \in 0..MaxRules}

ExtractionSchema(rules, multiple) ==
    [name |-> "items", rules |-> rules, root_selector |-> Some(".item"),
     multiple |-> multiple]

ExtractorConfig(strict_mode, validate_patterns, max_array_size) ==
    [strict_mode |-> strict_mode, validate_patterns |-> validate_patterns,
     max_array_size |-> max_array_size]

\* The call under way is one of the calls of the model.
ExtractCalls ==
    \/ \E rs \in RuleLists, sm \in BOOLEAN, vp \in BOOLEAN :
         call = [fn |-> "extract", data |-> << >>,
                 schema |-> ExtractionSchema(rs, FALSE),
                 cfg |-> ExtractorConfig(sm, vp, Some(DefaultMaxArraySize))]
    \/ \E d \in Documents, rs \in FixedRuleLists, m \in BOOLEAN,
          mx \in {None, Some(0), Some(DefaultMaxArraySize)} :
         call = [fn |-> "extract_multiple", data |-> d,
                 schema |-> ExtractionSchema(rs, m),
                 cfg |-> ExtractorConfig(TRUE, TRUE, mx)]
    \/ \E d \in Documents, r \in Rules \cup InvalidPatternRules,
          vp \in BOOLEAN :
         call = [fn |-> "extract_field", data |-> d, rule |-> r,
                 cfg |-> ExtractorConfig(TRUE, vp, Some(DefaultMaxArraySize))]

ExtractInit == Parked /\ ExtractCalls /\ ret = NotReturned

ExtractCall ==
    /\ call.fn = "extract"
    /\ ret = NotReturned
    /\ ret' = extract(call.data, call.schema, call.cfg)
    /\ UNCHANGED << call, parkedVars >>

ExtractMultipleCall ==
    /\ call.fn = "extract_multiple"
    /\ ret = NotReturned
    /\ ret' = extract_multiple(call.data, call.schema, call.cfg)
    /\ UNCHANGED << call, parkedVars >>

ExtractFieldCall ==
    /\ call.fn = "extract_field"
    /\ ret = NotReturned
    /\ ret' = extract_field(call.data, call.rule, call.cfg)
    /\ UNCHANGED << call, parkedVars >>

ExtractNext == ExtractCall \/ ExtractMultipleCall \/ ExtractFieldCall

ExtractSpec == ExtractInit /\ [][ExtractNext]_vars

\* ---------------------------------------------------------------- regex_cache
\* Threads that share one DataExtractor. Every path of extract to the cache
\* goes through apply_regex or validate_pattern, so a thread is a sequence
\* of such calls; call[t] is what thread t has left to do and where it is
\* in the call under way, ret[t] what its finished calls saw and returned.
MaxThreads == 2

CacheCall(fn, value, pattern) == [fn |-> fn, value |-> value, pattern |-> pattern]

CapturesA == CacheCall("apply_regex", String(<< "a", "b" >>), << "a" >>)
ValidatesA == CacheCall("validate_pattern", String(<< "b" >>), << "a" >>)
CapturesInvalid == CacheCall("apply_regex", String(<< "a", "b" >>), << "(" >>)
ValidatesInvalid == CacheCall("validate_pattern", String(<< "b" >>), << "(" >>)

Workloads ==
    { << CapturesA >>,
      << ValidatesA, CapturesA >>,
      << ValidatesInvalid, ValidatesA >>,
      << CapturesA, CapturesInvalid >> }

Thread(todo) == [todo |-> todo, pc |-> "call", regex |-> None]

CacheInit ==
    /\ Parked
    /\ \E k \in 1..MaxThreads :
         /\ call \in { [t \in 1..k |-> Thread(w[t])] : w \in [1..k -> Workloads] }
         /\ ret = [t \in 1..k |-> << >>]

\* MutexGuard taken by one thread and not by the others.
Unguarded == TRUE

\* Mutex::lock blocks while another thread holds the guard. No code panics
\* under the lock, so the Mutex is never poisoned and lock() never fails.
Unlocked == regex_cache.guard = None

\* self.regex_cache.lock()
Lock(t) ==
    /\ call[t].pc = "call"
    /\ call[t].todo # << >>
    /\ Unlocked
    /\ regex_cache' = [regex_cache EXCEPT !.guard = Some(t)]
    /\ call' = [call EXCEPT ![t].pc = "locked"]
    /\ UNCHANGED << ret, processorVars >>

\* cache.entry(pattern.to_string()): Occupied or Vacant
Entry(t) ==
    /\ call[t].pc = "locked"
    /\ call' = [call EXCEPT ![t].pc =
                   IF Head(call[t].todo).pattern \in DOMAIN regex_cache.map
                   THEN "occupied" ELSE "vacant"]
    /\ UNCHANGED << ret, regex_cache, processorVars >>

\* The Regex objects made for a pattern are numbered in the order they are
\* put in the map: an entry is the compiled Regex and its number.
Compiled(pattern) ==
    [regex |-> CompileOrFallback(pattern),
     serial |-> IF pattern \in DOMAIN regex_cache.map
                THEN regex_cache.map[pattern].serial + 1 ELSE 1]

\* .or_insert_with(..): a vacant entry is filled with what the closure
\* compiles; the call keeps a reference to the entry.
OrInsertWith(t) ==
    LET pattern == Head(call[t].todo).pattern
    IN \/ /\ call[t].pc = "vacant"
          /\ regex_cache' =
                [regex_cache EXCEPT !.map =
                    [q \in DOMAIN @ \cup {pattern} |->
                        IF q = pattern THEN Compiled(pattern) ELSE @[q]]]
          /\ call' = [call EXCEPT ![t].pc = "matching",
                                  ![t].regex = Some(Compiled(pattern))]
          /\ UNCHANGED << ret, processorVars >>
       \/ /\ call[t].pc = "occupied"
          /\ call' = [call EXCEPT ![t].pc = "matching",
                                  ![t].regex = Some(regex_cache.map[pattern])]
          /\ UNCHANGED << ret, regex_cache, processorVars >>

\* The rest of apply_regex or validate_pattern; the guard is dropped when
\* the function returns.
Return(t) ==
    /\ call[t].pc = "matching"
    /\ LET c == Head(call[t].todo)
           entry == call[t].regex[1]
           out == IF c.fn = "apply_regex"
                  THEN RegexCapture(entry.regex, c.value)
                  ELSE PatternCheck(entry.regex, c.value, c.pattern)
       IN ret' = [ret EXCEPT ![t] =
                     Append(@, [fn |-> c.fn, pattern |-> c.pattern,
                                entry |-> entry, out |-> out])]
    /\ call' = [call EXCEPT ![t] = Thread(Tail(call[t].todo))]
    /\ regex_cache' = [regex_cache EXCEPT !.guard = None]
    /\ UNCHANGED processorVars

CacheNext ==
    \/ \E t \in DOMAIN call : Lock(t)
    \/ \E t \in DOMAIN call : Entry(t)
    \/ \E t \in DOMAIN call : OrInsertWith(t)
    \/ \E t \in DOMAIN call : Return(t)

CacheSpec == CacheInit /\ [][CacheNext]_vars

\* ---------------------------------------------------------------- parser.rs
\* enum ParseError
InvalidHtml(m) == [type |-> "InvalidHtml", msg |-> m]
ElementNotFound(m) == [type |-> "ElementNotFound", msg |-> m]
ParseFailed(m) == [type |-> "ParseFailed", msg |-> m]

ParserConfig(preserve_whitespace, max_depth) ==
    [encoding |-> "utf-8", preserve_whitespace |-> preserve_whitespace,
     normalize_spaces |-> TRUE, max_depth |-> max_depth]

SearchConfig(case_sensitive, whole_words, max_context_length, include_line_numbers) ==
    [case_sensitive |-> case_sensitive, whole_words |-> whole_words,
     max_context_length |-> max_context_length,
     include_line_numbers |-> include_line_numbers]

\* The tree kuchikiki::parse_html().one(..) builds: a document node, element
\* nodes with their attributes in a map, text nodes.
DocumentNode(children) ==
    [kind |-> "document", tag |-> << >>, attributes |-> << >>,
     children |-> children, text |-> << >>]
ElementNode(tag, attributes, children) ==
    [kind |-> "element", tag |-> tag, attributes |-> attributes,
     children |-> children, text |-> << >>]
TextNode(text) ==
    [kind |-> "text", tag |-> << >>, attributes |-> << >>,
     children |-> << >>, text |-> text]

\* html: &str, as far as the parser looks at it: whether it is empty, and
\* the document html5ever makes of it.
Html(is_empty, document) == [is_empty |-> is_empty, document |-> document]

ParsedElement(tag, text, attributes, children, depth) ==
    [tag |-> tag, text |-> text, attributes |-> attributes,
     children |-> children, depth |-> depth]

RECURSIVE JoinAll(_)
JoinAll(ss) == IF ss = << >> THEN << >> ELSE Head(ss) \o JoinAll(Tail(ss))

IsElement(node) == node.kind = "element"
NonEmpty(s) == s # << >>

\* str::split_whitespace
split_whitespace(s) == SelectSeq(split(s, " "), NonEmpty)

\* format!("{:?}", val) of a kuchikiki Attribute { prefix, value }
S_attribute_ ==
    << "A", "t", "t", "r", "i", "b", "u", "t", "e", " ", "{", " ", "p", "r",
       "e", "f", "i", "x", ":", " ", "N", "o", "n", "e", ",", " ", "v", "a",
       "l", "u", "e", ":", " ", "\"" >>
DebugAttribute(value) == S_attribute_ \o Escaped(value) \o << "\"", " ", "}" >>

\* The text nodes among the children that element_to_parsed keeps.
KeptText(node, cfg) ==
    JoinAll([i \in 1..Len(node.children) |->
        LET child == node.children[i]
        IN IF child.kind = "text"
              /\ (cfg.preserve_whitespace \/ trim(child.text) # << >>)
           THEN child.text ELSE << >>])

\* element_to_parsed: a child is converted by element_to_parsed itself, at
\* depth + 1, and every conversion is Ok.
RECURSIVE element_to_parsed(_, _, _)
element_to_parsed(node, depth, cfg) ==
    LET elems == SelectSeq(node.children, IsElement)
        text == KeptText(node, cfg)
    IN Success(ParsedElement(
           IF IsElement(node) THEN node.tag ELSE << >>,
           IF cfg.preserve_whitespace THEN text ELSE trim(text),
           [k \in DOMAIN node.attributes |->
               DebugAttribute(node.attributes[k])],
           [i \in 1..Len(elems) |->
               element_to_parsed(elems[i], depth + 1, cfg).val],
           depth))

build_dom_tree(node, depth, cfg) ==
    IF cfg.max_depth # None /\ depth > cfg.max_depth[1]
    THEN Err(ParseFailed("Maximum depth exceeded"))
    ELSE element_to_parsed(node, depth, cfg)

parse_html(html, cfg) ==
    IF html.is_empty THEN Err(InvalidHtml("Empty HTML content"))
    ELSE build_dom_tree(html.document, 0, cfg)

RECURSIVE find_by_class(_, _, _)
find_by_class(node, class_name, cfg) ==
    (IF IsElement(node) /\ "class" \in DOMAIN node.attributes
        /\ Among(class_name, split_whitespace(node.attributes["class"]))
     THEN << element_to_parsed(node, 0, cfg).val >> ELSE << >>)
    \o JoinAll([i \in 1..Len(node.children) |->
                   find_by_class(node.children[i], class_name, cfg)])

\* find_by_id: the return leaves the call on the matching node, not the
\* calls on its ancestors, which go on with the next child.
RECURSIVE find_by_id(_, _, _)
find_by_id(node, id_name, cfg) ==
    IF IsElement(node) /\ "id" \in DOMAIN node.attributes
       /\ node.attributes["id"] = id_name
    THEN << element_to_parsed(node, 0, cfg).val >>
    ELSE JoinAll([i \in 1..Len(node.children) |->
                     find_by_id(node.children[i], id_name, cfg)])

RECURSIVE find_by_tag(_, _, _)
find_by_tag(node, tag_name, cfg) ==
    (IF IsElement(node) /\ node.tag = tag_name
     THEN << element_to_parsed(node, 0, cfg).val >> ELSE << >>)
    \o JoinAll([i \in 1..Len(node.children) |->
                   find_by_tag(node.children[i], tag_name, cfg)])

\* select_css parses whatever it is given, the empty string too.
select_css(html, selector, cfg) ==
    IF starts_with(selector, << "." >>)
    THEN Success(find_by_class(html.document, Tail(selector), cfg))
    ELSE IF starts_with(selector, << "#" >>)
    THEN Success(find_by_id(html.document, Tail(selector), cfg))
    ELSE Success(find_by_tag(html.document, selector, cfg))

S_attribute_on_ ==
    << " ", "a", "t", "t", "r", "i", "b", "u", "t", "e", " ", "o", "n", " " >>

extract_attribute(html, selector, attr, cfg) ==
    LET elements == select_css(html, selector, cfg).val
    IN IF elements = << >> THEN Err(ElementNotFound(selector))
       ELSE IF attr \in DOMAIN elements[1].attributes
            THEN Success(elements[1].attributes[attr])
       ELSE Err(ElementNotFound(<< attr >> \o S_attribute_on_ \o selector))

HasAttribute(element, attr) == attr \in DOMAIN element.attributes

extract_attributes(html, selector, attr, cfg) ==
    LET elements == select_css(html, selector, cfg).val
        having == SelectSeq(elements, LAMBDA e : HasAttribute(e, attr))
    IN Success([i \in 1..Len(having) |-> having[i].attributes[attr]])

\* ---- search_content
\* \w of the regex crate, on the alphabet of the model
IsWordChar(c) ==
    Among(c, Lower) \/ Among(c, Upper) \/ Among(c, Digits) \/ c = "_"

\* The regex search_single_term builds from an escaped term: the term as a
\* literal, under (?i) unless case_sensitive, between \b when whole_words.
SearchRegex(term, cfg) ==
    [lit |-> term, case_insensitive |-> ~cfg.case_sensitive,
     word_bounded |-> cfg.whole_words]

\* \b before the character at position p (1-based; Len + 1 is the end)
WordBoundary(line, p) ==
    LET before == p > 1 /\ IsWordChar(line[p - 1])
        after == p <= Len(line) /\ IsWordChar(line[p])
    IN before # after

\* \b on the left of the match alone.
BoundedOnLeft(line, p, q) == WordBoundary(line, p)

\* \b..\b around a match that occupies positions p..q-1
Bounded(line, p, q) == WordBoundary(line, p) /\ WordBoundary(line, q)

MatchesAt(regex, line, p) ==
    LET q == p + Len(regex.lit)
        found == SubSeq(line, p, q - 1)
    IN /\ q - 1 <= Len(line)
       /\ IF regex.case_insensitive
          THEN to_lowercase(found) = to_lowercase(regex.lit)
          ELSE found = regex.lit
       /\ regex.word_bounded => Bounded(line, p, q)

\* Regex::find_iter for a literal that is not empty: the leftmost match at
\* or after a position, then on from the end of that match. Offsets count
\* from 0, end is exclusive.
RECURSIVE FindFrom(_, _, _)
FindFrom(regex, line, from) ==
    LET at == {p \in from..Len(line) : MatchesAt(regex, line, p)}
    IN IF at = {} THEN << >>
       ELSE LET p == CHOOSE a \in at : \A b \in at : a <= b
            IN << [start |-> p - 1, end |-> p - 1 + Len(regex.lit)] >>
               \o FindFrom(regex, line, p + Len(regex.lit))

find_iter(regex, line) == FindFrom(regex, line, 1)

\* str::lines: split at "\n"; a last line that is empty does not count.
lines(html) ==
    LET parts == split(html, "\n")
    IN IF parts[Len(parts)] = << >> THEN SubSeq(parts, 1, Len(parts) - 1)
       ELSE parts

SearchMatch(term, text, start_position, end_position, context, line_number) ==
    [term |-> term, text |-> text, start_position |-> start_position,
     end_position |-> end_position, context |-> context,
     line_number |-> line_number, element_path |-> None]

\* The SearchMatch of one match cap in a line that starts at current_pos
MatchIn(line, line_idx, current_pos, cap, term, cfg) ==
    LET half == cfg.max_context_length \div 2
        context_start == IF cap.start > half THEN cap.start - half ELSE 0
        context_end == IF cap.end + half < Len(line) THEN cap.end + half
                       ELSE Len(line)
        matched_text == SubSeq(line, cap.start + 1, cap.end)
    IN SearchMatch(term, matched_text, current_pos + cap.start,
                   current_pos + cap.end,
                   << ".", ".", "." >>
                       \o SubSeq(line, context_start + 1, cap.start)
                       \o << "[" >> \o matched_text \o << "]" >>
                       \o SubSeq(line, cap.end + 1, context_end)
                       \o << ".", ".", "." >>,
                   IF cfg.include_line_numbers THEN Some(line_idx + 1)
                   ELSE None)

\* The loop over the lines, from line line_idx (0-based) on.
RECURSIVE SearchLines(_, _, _, _, _)
SearchLines(ls, line_idx, current_pos, term, cfg) ==
    IF line_idx >= Len(ls) THEN << >>
    ELSE LET line == ls[line_idx + 1]
             caps == find_iter(SearchRegex(term, cfg), line)
         IN [i \in 1..Len(caps) |->
                MatchIn(line, line_idx, current_pos, caps[i], term, cfg)]
            \o SearchLines(ls, line_idx + 1, current_pos + Len(line) + 1,
                           term, cfg)

\* An escaped term always compiles: the map_err branch is never taken.
search_single_term(html, term, cfg) ==
    Success(SearchLines(lines(html), 0, 0, term, cfg))

SearchResult(term, matches, total_matches) ==
    [term |-> term, matches |-> matches, total_matches |-> total_matches]

search_content(html, terms, cfg) ==
    Success([i \in 1..Len(terms) |->
        LET matches == search_single_term(html, terms[i], cfg).val
        IN SearchResult(terms[i], matches, Len(matches))])

\* ---------------------------------------------------------------- inputs of the parser
MaxDepth == 2
DefaultMaxContextLength == 100

S_div == << "d", "i", "v" >>
Body(children) ==
    DocumentNode(<< ElementNode(<< "h", "t", "m", "l" >>, << >>,
        << ElementNode(<< "h", "e", "a", "d" >>, << >>, << >>),
           ElementNode(<< "b", "o", "d", "y" >>, << >>, children) >>) >>)

\* Two elements with the id "a" side by side, a third one inside the first.
SameIdTwice ==
    Body(<< ElementNode(S_div, [id |-> << "a" >>, class |-> << "x", " ", "y" >>],
                << TextNode(<< "1" >>),
                   ElementNode(<< "a" >>, [id |-> << "a" >>], << >>) >>),
            ElementNode(<< "p" >>, [id |-> << "a" >>, href |-> << "u" >>],
                << TextNode(<< " " >>) >>) >>)

\* Three links, the first without href; one carries the only id "b".
Links ==
    Body(<< ElementNode(<< "a" >>, [class |-> << "y" >>], << >>),
            ElementNode(<< "a" >>, [href |-> << "u" >>, id |-> << "b" >>],
                << TextNode(<< "x" >>) >>),
            ElementNode(S_div, << >>,
                << ElementNode(<< "a" >>, [href |-> << "v" >>, class |-> << "y" >>],
                       << >>) >>) >>)

\* div > div > p below body: elements at depths 3, 4 and 5.
Nested ==
    Body(<< ElementNode(S_div, << >>,
                << ElementNode(S_div, [class |-> << "x" >>],
                       << ElementNode(<< "p" >>, << >>,
                              << TextNode(<< "a", "b" >>) >>) >>) >>) >>)

Htmls ==
    { Html(TRUE, Body(<< >>)), Html(FALSE, Body(<< >>)),
      Html(FALSE, SameIdTwice), Html(FALSE, Links), Html(FALSE, Nested) }

Selectors ==
    { << ".", "x" >>, << ".", "y" >>, << "#", "a" >>, << "#", "b" >>,
      << "a" >>, << "p" >>, S_div }

ParserConfigs ==
    { ParserConfig(pw, md) :
        pw \in BOOLEAN, md \in {None} \cup {Some(d) : d \in 0..MaxDepth} }

S_error == << "e", "r", "r", "o", "r" >>
Texts ==
    { S_error \o << " " >> \o S_error \o << "s" >>,
      << "E", "R", "R", "O", "R", ":", " " >> \o S_error \o << "_", "x" >>,
      << "a", "n", " " >> \o S_error \o << "\n" >> \o S_error \o << "s", " " >>
          \o S_error \o << ".", "\n" >>,
      << "a", "a", "a", " ", "a", "a" >> }

TermLists == { << S_error >>, << << "a", "a" >>, S_error >>, << << "r" >> >> }

SearchConfigs ==
    { SearchConfig(cs, ww, mx, ln) :
        cs \in BOOLEAN, ww \in BOOLEAN, mx \in {4, DefaultMaxContextLength},
        ln \in BOOLEAN }

\* The call under way is one of the calls of the model.
ParserCalls ==
    \/ \E h \in Htmls, c \in ParserConfigs :
         call = [fn |-> "parse_html", html |-> h, cfg |-> c]
    \/ \E h \in Htmls, s \in Selectors, c \in ParserConfigs :
         call = [fn |-> "select_css", html |-> h, selector |-> s, cfg |-> c]
    \/ \E h \in Htmls, s \in Selectors, a \in {"href", "id"},
          f \in {"extract_attribute", "extract_attributes"} :
         call = [fn |-> f, html |-> h, selector |-> s, attr |-> a,
                 cfg |-> ParserConfig(FALSE, None)]
    \/ \E h \in Texts, ts \in TermLists, c \in SearchConfigs :
         call = [fn |-> "search_content", html |-> h, terms |-> ts, cfg |-> c]

ParserInit == Parked /\ ParserCalls /\ ret = NotReturned

ParseHtmlCall ==
    /\ call.fn = "parse_html"
    /\ ret = NotReturned
    /\ ret' = parse_html(call.html, call.cfg)
    /\ UNCHANGED << call, parkedVars >>

SelectCssCall ==
    /\ call.fn = "select_css"
    /\ ret = NotReturned
    /\ ret' = select_css(call.html, call.selector, call.cfg)
    /\ UNCHANGED << call, parkedVars >>

ExtractAttributeCall ==
    /\ call.fn = "extract_attribute"
    /\ ret = NotReturned
    /\ ret' = extract_attribute(call.html, call.selector, call.attr, call.cfg)
    /\ UNCHANGED << call, parkedVars >>

ExtractAttributesCall ==
    /\ call.fn = "extract_attributes"
    /\ ret = NotReturned
    /\ ret' = extract_attributes(call.html, call.selector, call.attr, call.cfg)
    /\ UNCHANGED << call, parkedVars >>

SearchContentCall ==
    /\ call.fn = "search_content"
    /\ ret = NotReturned
    /\ ret' = search_content(call.html, call.terms, call.cfg)
    /\ UNCHANGED << call, parkedVars >>

ParserNext ==
    \/ ParseHtmlCall
    \/ SelectCssCall
    \/ ExtractAttributeCall
    \/ ExtractAttributesCall
    \/ SearchContentCall

ParserSpec == ParserInit /\ [][ParserNext]_vars

\* ---------------------------------------------------------------- transformer.rs
\* TransformationError::InvalidFilter
InvalidFilter(m) == [type |-> "InvalidFilter", msg |-> m]

\* enum FilterOperator
FilterOperator ==
    {"Equals", "NotEquals", "GreaterThan", "LessThan", "GreaterThanOrEqual",
     "LessThanOrEqual", "Contains", "NotContains", "StartsWith", "EndsWith",
     "Regex"}

Filter(field, operator, value) ==
    [field |-> field, operator |-> operator, value |-> value]

\* Value::get(&str): a member of an object, None for anything else.
get(item, field) ==
    IF item.t = "object" /\ field \in DOMAIN item.v THEN Some(item.v[field])
    ELSE None

\* Value::as_f64 (the numbers of the model are integers)
as_f64(v) == IF v.t = "number" THEN Some(v.v) ELSE None

\* PartialEq of Value
ValueEq(a, b) == a.t = b.t /\ (a.t = "null" \/ a.v = b.v)

ends_with(s, suffix) ==
    Len(s) >= Len(suffix)
    /\ SubSeq(s, Len(s) - Len(suffix) + 1, Len(s)) = suffix

\* A missing field kept by the operators that negate.
MissingFieldNegated(f) == f.operator \in {"NotEquals", "NotContains"}

\* apply_filter, `None => return false`: the item has no such field.
MissingField(f) == FALSE

\* apply_filter; a Regex pattern is a plain one (no metacharacters), which
\* Regex::new accepts and is_match finds anywhere in the text.
apply_filter(item, f) ==
    LET field == get(item, f.field)
    IN IF field = None THEN MissingField(f)
       ELSE LET field_value == field[1]
                bothNumbers ==
                    as_f64(field_value) # None /\ as_f64(f.value) # None
                bothStrings ==
                    as_str(field_value) # None /\ as_str(f.value) # None
            IN CASE f.operator = "Equals" -> ValueEq(field_value, f.value)
                 [] f.operator = "NotEquals" -> ~ValueEq(field_value, f.value)
                 [] f.operator = "GreaterThan" ->
                       bothNumbers /\ field_value.v > f.value.v
                 [] f.operator = "LessThan" ->
                       bothNumbers /\ field_value.v < f.value.v
                 [] f.operator = "GreaterThanOrEqual" ->
                       bothNumbers /\ field_value.v >= f.value.v
                 [] f.operator = "LessThanOrEqual" ->
                       bothNumbers /\ field_value.v <= f.value.v
                 [] f.operator = "Contains" ->
                       bothStrings /\ contains(field_value.v, f.value.v)
                 [] f.operator = "NotContains" ->
                       IF bothStrings
                       THEN ~contains(field_value.v, f.value.v)
                       ELSE TRUE
                 [] f.operator = "StartsWith" ->
                       bothStrings /\ starts_with(field_value.v, f.value.v)
                 [] f.operator = "EndsWith" ->
                       bothStrings /\ ends_with(field_value.v, f.value.v)
                 [] f.operator = "Regex" ->
                       bothStrings /\ contains(field_value.v, f.value.v)

\* Vec::retain(|item| self.apply_filter(item, filter))
Retain(result, f) == SelectSeq(result, LAMBDA item : apply_filter(item, f))

RECURSIVE RetainAll(_, _)
RetainAll(result, filters) ==
    IF filters = << >> THEN result
    ELSE RetainAll(Retain(result, Head(filters)), Tail(filters))

\* A filter that stops after its first filter.
filter_first(data, filters) ==
    Success(IF filters = << >> THEN data ELSE Retain(data, Head(filters)))

filter(data, filters) == Success(RetainAll(data, filters))

\* Value::as_object().cloned() or an empty map
ObjectOrEmpty(item) == IF item.t = "object" THEN item.v ELSE << >>

\* TransformationError::MappingError
MappingError(m) == [type |-> "MappingError", msg |-> m]

Mapping(from_field, to_field, transform_fn) ==
    [from_field |-> from_field, to_field |-> to_field,
     transform_fn |-> transform_fn]

\* Value::Number(Number::from_f64(n)): an f64 with an integral value, which
\* is not equal to the integer n and prints as n.0.
Float(x) == [t |-> "number", v |-> x, f64 |-> TRUE]

\* apply_simple_transform; str::parse::<f64> is taken on the strings of the
\* model, which hold a number only when they hold an integer.
apply_simple_transform(value, fn_name) ==
    CASE fn_name = "uppercase" ->
            Success(IF as_str(value) # None THEN String(to_uppercase(value.v))
                    ELSE value)
      [] fn_name = "lowercase" ->
            Success(IF as_str(value) # None THEN String(to_lowercase(value.v))
                    ELSE value)
      [] fn_name = "trim" ->
            Success(IF as_str(value) # None THEN String(trim(value.v))
                    ELSE value)
      [] fn_name = "to_string" -> Success(String(json_text(value)))
      [] fn_name = "to_number" ->
            IF as_f64(value) # None THEN Success(Float(as_f64(value)[1]))
            ELSE IF as_str(value) # None
                 THEN IF parse_i64(value.v) # None
                      THEN Success(Float(parse_i64(value.v)[1]))
                      ELSE Err(MappingError(<< "Cannot convert '", value.v,
                                               "' to number" >>))
                 ELSE Success(Null)
      [] OTHER -> Err(MappingError(<< "Unknown transformation: ", fn_name >>))

\* A mapping that moves the field instead of copying it.
ApplyMappingMove(result, mapping) ==
    IF mapping.from_field \notin DOMAIN result THEN Success(result)
    ELSE Success([k \in ((DOMAIN result) \ {mapping.from_field})
                          \cup {mapping.to_field} |->
                     IF k = mapping.to_field THEN result[mapping.from_field]
                     ELSE result[k]])

\* The body of `for mapping in mappings` in apply_mappings
ApplyMapping(result, mapping) ==
    IF mapping.from_field \notin DOMAIN result THEN Success(result)
    ELSE LET transformed_value ==
                 IF mapping.transform_fn # None
                 THEN apply_simple_transform(result[mapping.from_field],
                                             mapping.transform_fn[1])
                 ELSE Success(result[mapping.from_field])
         IN IF transformed_value.kind = "Err" THEN transformed_value
            ELSE Success(Insert(result, mapping.to_field,
                                transformed_value.val))

RECURSIVE MapInto(_, _)
MapInto(result, mappings) ==
    IF mappings = << >> THEN Success(result)
    ELSE LET r == ApplyMapping(result, Head(mappings))
         IN IF r.kind = "Err" THEN r ELSE MapInto(r.val, Tail(mappings))

apply_mappings(item, mappings) ==
    LET r == MapInto(ObjectOrEmpty(item), mappings)
    IN IF r.kind = "Err" THEN r ELSE Success(Object(r.val))

\* collect::<Result<Vec<_>, _>>(): the first error in order, or every value.
Collect(rs) ==
    IF \E i \in 1..Len(rs) : rs[i].kind = "Err"
    THEN rs[CHOOSE i \in 1..Len(rs) :
                rs[i].kind = "Err" /\ \A j \in 1..(i - 1) : rs[j].kind = "Ok"]
    ELSE Success([i \in 1..Len(rs) |-> rs[i].val])

map_fields(data, mappings) ==
    Collect([i \in 1..Len(data) |-> apply_mappings(data[i], mappings)])

normalize_value(value, rule_type) ==
    IF as_str(value) = None THEN value
    ELSE CASE rule_type = "trim" -> String(trim(value.v))
           [] rule_type = "phone_format" ->
                 String(SelectSeq(value.v, LAMBDA c : Among(c, Digits)))
           [] rule_type = "email_normalize" ->
                 String(trim(to_lowercase(value.v)))
           [] OTHER -> value

RECURSIVE NormalizeInto(_, _)
NormalizeInto(result, rules) ==
    IF rules = << >> THEN result
    ELSE LET rule == Head(rules)
         IN NormalizeInto(IF rule.field \in DOMAIN result
                          THEN Insert(result, rule.field,
                                      normalize_value(result[rule.field],
                                                      rule.rule_type))
                          ELSE result,
                          Tail(rules))
apply_normalizations(item, rules) ==
    Success(Object(NormalizeInto(ObjectOrEmpty(item), rules)))

normalize(data, rules) ==
    Success([i \in 1..Len(data) |-> apply_normalizations(data[i], rules).val])

\* values.iter().filter_map(|v| v.as_f64()).sum()
RECURSIVE NumericSum(_)
NumericSum(values) ==
    IF values = << >> THEN 0
    ELSE UnwrapOr(as_f64(Head(values)), 0) + NumericSum(Tail(values))

\* The f64 quotient a / b, kept exact.
Quotient(a, b) == [num |-> a, den |-> b]

aggregate_sum(values) == Success(Number(NumericSum(values)))

aggregate_average(values) ==
    IF values = << >> THEN Success(Null)
    ELSE Success(Number(Quotient(NumericSum(values), Len(values))))

\* data.iter().filter_map(|item| item.get(&agg.field).cloned()).collect()
RECURSIVE FieldValues(_, _)
FieldValues(data, field) ==
    IF data = << >> THEN << >>
    ELSE get(Head(data), field) \o FieldValues(Tail(data), field)

\* aggregate for the functions Sum, Average and Count
RECURSIVE AggregateInto(_, _, _)
AggregateInto(result, data, aggregations) ==
    IF aggregations = << >> THEN result
    ELSE LET agg == Head(aggregations)
             values == FieldValues(data, agg.field)
             agg_value ==
                 CASE agg.function = "Sum" -> aggregate_sum(values).val
                   [] agg.function = "Average" ->
                         aggregate_average(values).val
                   [] agg.function = "Count" -> Number(Len(values))
         IN AggregateInto(Insert(result, agg.output_field, agg_value), data,
                          Tail(aggregations))
aggregate(data, aggregations) ==
    Success(Object(AggregateInto(<< >>, data, aggregations)))

\* The placeholders: whatever the config, no filter, mapping or rule.
parse_filter_config(step_config) == Success(<< >>)
parse_mapping_config(step_config) == Success(<< >>)
parse_normalization_config(step_config) == Success(<< >>)

\* The locals of execute_pipeline before its loop; ran counts the steps
\* carried out, returned holds the error of an early return.
PipelineLocals(data) == [data |-> data, ran |-> 0, returned |-> None]

\* data = <step>?: the step's output, or its error returned at once.
Advance(acc, r) ==
    IF r.kind = "Err" THEN [acc EXCEPT !.returned = Some(r.err)]
    ELSE [acc EXCEPT !.data = r.val, !.ran = @ + 1]

\* An unknown step type passed over when there is no data.
OnUnknownStepWithData(acc, step) ==
    IF acc.data = << >> THEN acc
    ELSE [acc EXCEPT !.returned =
              Some(InvalidFilter(<< "Unknown step type: ",
                                    step.step_type >>))]

\* The `_` arm of the match on step_type
OnUnknownStep(acc, step) ==
    [acc EXCEPT !.returned =
         Some(InvalidFilter(<< "Unknown step type: ", step.step_type >>))]

RECURSIVE PipelineLoop(_, _)
PipelineLoop(steps, acc) ==
    IF steps = << >> \/ acc.returned # None THEN acc
    ELSE LET step == Head(steps)
         IN PipelineLoop(Tail(steps),
              CASE step.step_type = "filter" ->
                     Advance(acc, filter(acc.data,
                                 parse_filter_config(step.config).val))
                [] step.step_type = "map" ->
                     Advance(acc, map_fields(acc.data,
                                 parse_mapping_config(step.config).val))
                [] step.step_type = "normalize" ->
                     Advance(acc, normalize(acc.data,
                                 parse_normalization_config(step.config).val))
                [] OTHER -> OnUnknownStep(acc, step))

execute_pipeline(data, pipeline) ==
    LET acc == PipelineLoop(pipeline.steps, PipelineLocals(data))
    IN IF acc.returned # None THEN Err(acc.returned[1])
       ELSE Success(acc.data)

\* ---------------------------------------------------------------- inputs of the transformer
MaxRecords == 3
MaxSteps == 2

S_ab == << "a", "b" >>

Records ==
    { Object([price |-> Number(50), name |-> String(S_ab)]),
      Object([price |-> Number(150), name |-> String(<< "b" >>)]),
      Object([price |-> String(S_ab)]),
      Object([name |-> String(S_ab)]),
      Number(7) }

DataLists == UNION {[1..k -> Records] : k \in 0..MaxRecords}

Filters ==
    { Filter("price", "GreaterThan", Number(100)),
      Filter("price", "LessThanOrEqual", Number(150)),
      Filter("price", "GreaterThanOrEqual", Number(150)),
      Filter("price", "LessThan", String(S_ab)),
      Filter("price", "Equals", Number(50)),
      Filter("price", "NotEquals", Number(50)),
      Filter("name", "Contains", String(<< "a" >>)),
      Filter("price", "NotContains", String(<< "a" >>)),
      Filter("name", "NotContains", String(<< "a" >>)),
      Filter("name", "StartsWith", String(<< "b" >>)),
      Filter("name", "EndsWith", String(<< "b" >>)),
      Filter("price", "Regex", String(<< "b" >>)) }

\* filter is called with no filter, one filter or two.
FilterLists ==
    { << >> } \cup { << f >> : f \in Filters }
    \cup { << f, g >> : f \in Filters, g \in Filters }

Aggregation(field, function, output_field) ==
    [field |-> field, function |-> function, output_field |-> output_field]

TransformationStep(step_type, step_config) ==
    [name |-> "step", step_type |-> step_type, config |-> step_config]

\* The config of the documented example: { "field": "price", "operator":
\* "gt", "value": 100 }
PriceAbove100 ==
    Object([field |-> String(<< "p", "r", "i", "c", "e" >>),
            operator |-> String(<< "g", "t" >>), value |-> Number(100)])

Steps ==
    { TransformationStep("filter", PriceAbove100),
      TransformationStep("filter", Null),
      TransformationStep("map", Null),
      TransformationStep("normalize", Null),
      TransformationStep("sort", Null),
      TransformationStep("aggregate", Null) }

TransformationPipeline(steps) ==
    [name |-> "pipeline", steps |-> steps, parallel |-> FALSE,
     cache_results |-> FALSE]

\* filter is exercised on objects, execute_pipeline on priced objects and on
\* a value that is not an object.
ObjectLists ==
    { d \in DataLists : \A i \in 1..Len(d) : d[i].t = "object" }
PipelineData ==
    { d \in DataLists :
        \A i \in 1..Len(d) : as_f64(d[i]) # None
                               \/ as_f64(UnwrapOr(get(d[i], "price"), Null))
                                      # None }

Mappings ==
    { Mapping("name", "label", Some("uppercase")),
      Mapping("price", "cost", None),
      Mapping("cost", "total", Some("to_string")),
      Mapping("price", "price", Some("to_number")),
      Mapping("name", "name", Some("trim")),
      Mapping("price", "name", Some("lowercase")),
      Mapping("name", "x", Some("reverse")) }

\* map_fields is called with no mapping, one mapping or two, on at most two
\* records.
MappingLists ==
    { << >> } \cup { << m >> : m \in Mappings }
    \cup { << m, m2 >> : m \in Mappings, m2 \in Mappings }
MappedData == { d \in DataLists : Len(d) <= 2 }

\* The call under way is one of the calls of the model.
TransformCalls ==
    \/ \E d \in MappedData, ms \in MappingLists :
         call = [fn |-> "map_fields", data |-> d, mappings |-> ms]
    \/ \E d \in ObjectLists, fs \in FilterLists :
         call = [fn |-> "filter", data |-> d, filters |-> fs]
    \/ \E d \in DataLists, fun \in {"Sum", "Average", "Count"} :
         call = [fn |-> "aggregate", data |-> d,
                 aggregations |-> << Aggregation("price", fun, "out") >>]
    \/ \E d \in PipelineData,
          ss \in UNION {[1..k -> Steps] : k \in 0..MaxSteps} :
         call = [fn |-> "execute_pipeline", data |-> d,
                 pipeline |-> TransformationPipeline(ss)]

TransformInit == Parked /\ TransformCalls /\ ret = NotReturned

FilterCall ==
    /\ call.fn = "filter"
    /\ ret = NotReturned
    /\ ret' = filter(call.data, call.filters)
    /\ UNCHANGED << call, parkedVars >>

AggregateCall ==
    /\ call.fn = "aggregate"
    /\ ret = NotReturned
    /\ ret' = aggregate(call.data, call.aggregations)
    /\ UNCHANGED << call, parkedVars >>

MapFieldsCall ==
    /\ call.fn = "map_fields"
    /\ ret = NotReturned
    /\ ret' = map_fields(call.data, call.mappings)
    /\ UNCHANGED << call, parkedVars >>

ExecutePipelineCall ==
    /\ call.fn = "execute_pipeline"
    /\ ret = NotReturned
    /\ ret' = execute_pipeline(call.data, call.pipeline)
    /\ UNCHANGED << call, parkedVars >>

TransformNext ==
    FilterCall \/ MapFieldsCall \/ AggregateCall \/ ExecutePipelineCall

TransformSpec == TransformInit /\ [][TransformNext]_vars

\* ---------------------------------------------------------------- fair runs of process_batch
\* process_batch alone, on a runtime that keeps polling ready tasks and a
\* processor_fn whose calls (and the retry sleeps) come to an end: as long
\* as some task is running or sleeping, one of them takes its next step.
\* Nothing is assumed about the spawn loop, the acquires or the drain loop.
InitBatch == Init /\ mode = "batch"

NextBatch ==
    \/ CallBatch
    \/ Spawn
    \/ StartDrain
    \/ \E i \in 1..n : Acquire(i)
    \/ \E i \in 1..n : Complete(i)
    \/ \E i \in 1..n : Wake(i)
    \/ Drain
    \/ ReturnOk

LiveSpec ==
    /\ InitBatch
    /\ [][NextBatch]_vars
    /\ WF_vars(\E i \in 1..n : Complete(i) \/ Wake(i))

\* process_batch on a runtime that keeps polling every task that can make
\* progress, the caller included; the semaphore hands a free permit to a
\* waiting task.
FairSpec == InitBatch /\ [][NextBatch]_vars /\ WF_vars(NextBatch)

\* The same runtime, for the batches that stop at the first failed item.
FailFastInit == InitBatch /\ ~config.continue_on_error

FailFastSpec == FailFastInit /\ [][NextBatch]_vars /\ WF_vars(NextBatch)

\* ---------------------------------------------------------------- claims
Holding(i) == i \in DOMAIN task /\ task[i].st \in {"running", "sleeping"}
Finished(i) == task[i].st = "finished"
AllSettled == bpc # "idle" /\ spawned = n /\ \A i \in 1..n : Finished(i)
Returned == {r \in {bret, sret} : r.kind = "Ok"}

\* C1: whenever process_batch or process_sequential returns Ok for N items,
\* processed_items + failed_items + skipped_items = N = total_items and
\* success_rate = processed_items / N * 100 (0 for N = 0).
C1_BatchConservation ==
    \A r \in Returned :
        LET b == r.result IN
        /\ b.processed_items + b.failed_items + b.skipped_items = n
        /\ b.total_items = n
        /\ b.success_rate.num * n = b.processed_items * 100 * b.success_rate.den
        /\ n = 0 => b.success_rate.num = 0

C1_Witness ==
    /\ bret.kind = "Ok"
    /\ n = 2
    /\ bret.result.failed_items = 1
    /\ bret.result.skipped_items = 1
    /\ \E i \in 1..n : task[i].out.kind = "JoinError"

\* C2: at any moment the tasks whose processor_fn is running or that sleep
\* between retries number at most max_concurrent, each of them holding
\* one permit taken before its first attempt.
C2_ConcurrencyBound ==
    /\ Cardinality({i \in 1..n : Holding(i)}) <= config.max_concurrent
    /\ permits + Cardinality({i \in 1..n : Holding(i)}) = config.max_concurrent
    /\ \A i \in 1..n : task[i].st \in {"unspawned", "acquire"} =>
                         invocations[i] = 0

C2_Witness ==
    /\ permits = 0
    /\ config.max_concurrent = 1
    /\ \E i, j \in 1..n : task[i].st = "sleeping" /\ task[j].st = "acquire"

\* C3: every permit a task takes is eventually given back, on success, on
\* failure and on retry exhaustion alike (the batch being finite: from some
\* point on no task holds a permit), and once every task of the batch has
\* settled all max_concurrent permits are free again.
C3_PermitsReleased ==
    /\ [](AllSettled => permits = config.max_concurrent)
    /\ <>[](\A i \in 1..n : ~Holding(i))

C3_Witness ==
    /\ AllSettled
    /\ n = 2
    /\ permits = config.max_concurrent
    /\ exhaustedBy[1] # None
    /\ task[2].out.kind = "JoinError"

\* Position of id x in a sequence of ids that holds it.
IndexIn(seq, x) == CHOOSE p \in 1..Len(seq) : seq[p] = x

\* A task output that the drain loop tallies as a failure.
Failure(out) == out.kind # "Ok" \/ out.item.status = "Failed"

\* C4 (as claimed): an item whose processor_fn returns Err on every attempt
\* is invoked retry_count + 1 times before it is marked Failed.
C4_RetryCountPlusOne ==
    \A i \in 1..n :
        exhaustedBy[i] # None => invocations[i] = config.retry_count + 1

\* C5 (as claimed): BatchResult.results of process_batch lists the items in
\* the order in which their tasks completed.
C5_CompletionOrder ==
    bret.kind = "Ok" =>
        LET rs == bret.result.results IN
        \A p, q \in 1..Len(rs) :
            p < q => IndexIn(completed, rs[p].id) < IndexIn(completed, rs[q].id)

\* C5 (amended): BatchResult.results of process_batch lists the items in the
\* order in which they were submitted, whatever the order in which their
\* tasks completed.
C5_SubmissionOrder ==
    bret.kind = "Ok" =>
        LET rs == bret.result.results IN
        \A p, q \in 1..Len(rs) : p < q => rs[p].id < rs[q].id

C5_Witness ==
    /\ bret.kind = "Ok"
    /\ completed = << 2, 1 >>
    /\ Len(bret.result.results) = 2

\* C6 (as claimed): with continue_on_error = false the error process_batch
\* returns is that of the failure that came first in completion order.
C6_FirstCompletedFailureAborts ==
    bret.kind = "Err" =>
        \A j \in 1..n :
            (j # cursor - 1 /\ Finished(j) /\ Failure(task[j].out)) =>
                IndexIn(completed, cursor - 1) < IndexIn(completed, j)

\* C6 (amended): with continue_on_error = false the error process_batch
\* returns is that of the failing item that comes first in input order:
\* every item submitted before it has settled without failure, whatever
\* the order in which the tasks completed.
C6_FirstSubmittedFailureAborts ==
    bret.kind = "Err" =>
        LET k == cursor - 1
            out == task[k].out
        IN /\ ~config.continue_on_error
           /\ Finished(k) /\ Failure(out)
           /\ \A j \in 1..(k - 1) : Finished(j) /\ ~Failure(task[j].out)
           /\ out.kind = "Ok" =>
                bret.err = ProcessingError(
                              IF out.item.error = None THEN "Unknown error"
                              ELSE out.item.error[1])
           /\ out.kind = "JoinError" => bret.err.type = "ChannelError"

C6_Witness ==
    /\ bret.kind = "Err"
    /\ n = 2
    /\ cursor = 2
    /\ completed = << 2, 1 >>
    /\ exhaustedBy[1] = Some(TimeoutError)
    /\ exhaustedBy[2] = Some(ProcessingError("x"))
    /\ bret.err = ProcessingError("Timeout error")

\* C7 (as claimed): for the same items, config and deterministic
\* processor_fn, process_sequential and process_batch return the same
\* Ok/Err outcome, the same counts and the same final status per item
\* (runs in which processor_fn panics are left aside).
C7_SequentialEqualsBatch ==
    (mode = "both" /\ bpc = "done" /\ spc = "done" /\ sret.kind # "Panic") =>
        /\ sret.kind = bret.kind
        /\ sret.kind = "Ok" =>
             /\ sret.result.processed_items = bret.result.processed_items
             /\ sret.result.failed_items = bret.result.failed_items
             /\ sret.result.skipped_items = bret.result.skipped_items
             /\ [p \in 1..Len(sret.result.results) |->
                    sret.result.results[p].status]
                = [p \in 1..Len(bret.result.results) |->
                    bret.result.results[p].status]

\* The entry of results for item id, if there is one.
ResultsOf(rs, id) == {p \in 1..Len(rs) : rs[p].id = id}

\* C8 (as claimed): an item that exhausts its retries is never a hard
\* error of process_batch: once its handle is drained it is counted in
\* failed_items and listed in results as Failed with the last failure's
\* message, and the call goes on to return Ok with every item settled.
C8_ExhaustedNeverAborts ==
    \A i \in 1..n :
        (exhaustedBy[i] # None /\ bpc \in {"drain", "done"} /\ cursor > i) =>
            /\ bret.kind # "Err"
            /\ failed >= 1
            /\ \E p \in ResultsOf(results, i) :
                 /\ results[p].status = "Failed"
                 /\ results[p].error = Some(to_string(exhaustedBy[i][1]))
            /\ bret.kind = "Ok" => AllSettled

\* C8 (amended): with continue_on_error = true, an item that exhausts its
\* retries is, once its handle is drained, counted in failed_items and
\* listed in results as Failed with error set to the Display string of the
\* last failure, and process_batch returns Ok only after every item has
\* settled; with continue_on_error = false the first such item in input
\* order makes process_batch return Err(ProcessingError(that string)).
C8_ExhaustedIsTallied ==
    \A i \in 1..n :
        (exhaustedBy[i] # None /\ bpc \in {"drain", "done"} /\ cursor > i) =>
            /\ task[i].out = TaskOk(Item(i, "Failed",
                                    Some(to_string(exhaustedBy[i][1]))))
            /\ failed >= 1
            /\ config.continue_on_error =>
                 /\ bret.kind # "Err"
                 /\ \E p \in ResultsOf(results, i) :
                      /\ results[p].status = "Failed"
                      /\ results[p].error = Some(to_string(exhaustedBy[i][1]))
                 /\ bret.kind = "Ok" =>
                      AllSettled /\ bret.result.failed_items >= 1
            /\ ~config.continue_on_error =>
                 /\ bpc = "done"
                 /\ bret = Err(ProcessingError(to_string(exhaustedBy[i][1])))

C8_Witness ==
    /\ config.continue_on_error
    /\ config.retry_count = 2
    /\ n = 2
    /\ bret.kind = "Ok"
    /\ exhaustedBy[1] = Some(TimeoutError)
    /\ invocations[1] = 2
    /\ bret.result.results[1].error = Some("Timeout error")
    /\ bret.result.results[2].status = "Success"

\* C9: with continue_on_error = true neither process_batch nor
\* process_sequential returns Err, however many items fail, return Err or
\* fail to join.
C9_ContinueOnErrorNeverErr ==
    config.continue_on_error => bret.kind # "Err" /\ sret.kind # "Err"

C9_Witness ==
    /\ config.continue_on_error
    /\ mode = "both"
    /\ n = 2
    /\ bret.kind = "Ok" /\ bret.result.failed_items = 2
    /\ sret.kind = "Ok" /\ sret.result.failed_items = 2
    /\ \A i \in 1..n : exhaustedBy[i] # None

Terminal == {"Success", "Failed", "Skipped"}

CountOf(rs, S) == Cardinality({p \in 1..Len(rs) : rs[p].status \in S})

\* C10 (as claimed): every item of the results returned by process_batch is
\* in a terminal status, its error is set iff it is Failed, and
\* skipped_items is the number of result items whose status is Skipped.
C10_ResultsTerminal ==
    bret.kind = "Ok" =>
        LET rs == bret.result.results IN
        /\ \A p \in 1..Len(rs) :
             /\ rs[p].status \in Terminal
             /\ rs[p].error # None <=> rs[p].status = "Failed"
        /\ bret.result.skipped_items = CountOf(rs, {"Skipped"})

\* C10 (amended): every item of the results returned by process_batch is
\* either the item processor_fn returned Ok for it, passed on unchecked
\* (any status, error set or not), or the submitted item marked Failed with
\* its error set on retry exhaustion; the item a task owns only moves
\* Pending -> Processing -> Failed with error set iff Failed; and
\* skipped_items is the number of result items whose status is neither
\* Success nor Failed.
C10_ResultsAsReturned ==
    /\ \A i \in 1..n :
         /\ task[i].item.status \in {"Pending", "Processing", "Failed"}
         /\ task[i].item.error # None <=> task[i].item.status = "Failed"
         /\ task[i].item.status = "Pending" <=>
                task[i].st \in {"unspawned", "acquire"}
         /\ task[i].item.status = "Failed" <=> exhaustedBy[i] # None
    /\ bret.kind = "Ok" =>
        LET rs == bret.result.results IN
        /\ \A p \in 1..Len(rs) :
             /\ task[rs[p].id].out = TaskOk(rs[p])
             /\ exhaustedBy[rs[p].id] # None =>
                    rs[p].status = "Failed" /\ rs[p].error # None
        /\ bret.result.skipped_items
             = CountOf(rs, ProcessingStatus \ {"Success", "Failed"})
        /\ bret.result.processed_items = CountOf(rs, {"Success"})
        /\ bret.result.failed_items >= CountOf(rs, {"Failed"})

C10_Witness ==
    /\ bret.kind = "Ok"
    /\ n = 2
    /\ bret.result.skipped_items = 2
    /\ bret.result.results[1].status = "Processing"
    /\ bret.result.results[2].status = "Skipped"

\* Concatenation of a sequence of sequences, in order.
RECURSIVE Flatten(_)
Flatten(ss) == IF ss = << >> THEN << >> ELSE Head(ss) \o Flatten(Tail(ss))

\* C11: for batch_size B >= 1, chunk_items cuts N items into ceil(N / B)
\* chunks whose concatenation is the input; every chunk but the last has B
\* items and the last has between 1 and B.
C11_ChunkPartition ==
    (call.fn = "chunk_items" /\ ret # NotReturned /\ call.batch_size >= 1) =>
        /\ ret.kind = "Ok"
        /\ LET cs == ret.val
               N == Len(call.items)
               B == call.batch_size
           IN /\ Len(cs) = (N + B - 1) \div B
              /\ Flatten(cs) = call.items
              /\ \A i \in 1..(Len(cs) - 1) : Len(cs[i]) = B
              /\ Len(cs) > 0 =>
                    Len(cs[Len(cs)]) >= 1 /\ Len(cs[Len(cs)]) <= B

C11_Witness ==
    /\ call.fn = "chunk_items"
    /\ Len(call.items) = 250
    /\ call.batch_size = 100
    /\ ret.kind = "Ok"
    /\ [i \in 1..Len(ret.val) |-> Len(ret.val[i])] = << 100, 100, 50 >>

\* ---------------------------------------------------------------- extract
Extracting == call.fn = "extract" /\ ret # NotReturned
SchemaRules == call.schema.rules
\* The outcome of rule i of the schema taken on its own.
FieldOutcome(i) == extract_field(call.data, SchemaRules[i], call.cfg)
FieldFails(i) == FieldOutcome(i).kind = "Err"
Aborting(i) ==
    FieldFails(i) /\ SchemaRules[i].required /\ call.cfg.strict_mode
DistinctNames ==
    \A i, j \in 1..Len(SchemaRules) :
        SchemaRules[i].name = SchemaRules[j].name => i = j

\* C12: when extract returns Ok for a schema of R > 0 rules,
\* fields_extracted + fields_failed = R and success_rate is
\* fields_extracted / R * 100; fields_extracted counts the rules whose
\* extraction succeeded and fields_failed those whose extraction failed, a
\* failure replaced by the rule's default included.
C12_FieldCounts ==
    (Extracting /\ ret.kind = "Ok" /\ Len(SchemaRules) > 0) =>
        LET R == Len(SchemaRules)
            res == ret.val
        IN /\ res.fields_extracted + res.fields_failed = R
           /\ res.success_rate = [num |-> res.fields_extracted * 100,
                                  den |-> R]
           /\ res.fields_failed = Cardinality({i \in 1..R : FieldFails(i)})
           /\ res.fields_extracted =
                  Cardinality({i \in 1..R : ~FieldFails(i)})

C12_Witness ==
    /\ Extracting
    /\ ret.kind = "Ok"
    /\ Len(SchemaRules) = 2
    /\ ~FieldFails(1)
    /\ FieldFails(2)
    /\ SchemaRules[2].default_value # None
    /\ ret.val.fields_failed = 1
    /\ ret.val.success_rate = [num |-> 100, den |-> 2]

\* C13: extract returns Err exactly when some failing rule is required while
\* strict_mode is on, whatever its default; the error is that of the first
\* such rule in schema order, no later rule is evaluated and no partial
\* result is returned.  Otherwise a failure only adds to fields_failed.
C13_StrictRequiredAborts ==
    Extracting =>
        LET R == Len(SchemaRules)
            trace == ExtractLoop(call.data, SchemaRules, call.cfg,
                                 ExtractLocals)
        IN /\ ret.kind \in {"Ok", "Err"}
           /\ ret.kind = "Err" <=> \E i \in 1..R : Aborting(i)
           /\ ret.kind = "Err" =>
                 LET first == CHOOSE i \in 1..R :
                                  Aborting(i)
                                  /\ \A j \in 1..(i - 1) : ~Aborting(j)
                 IN /\ ret = Err(FieldOutcome(first).err)
                    /\ trace.evaluated = first
           /\ ret.kind = "Ok" =>
                 /\ trace.evaluated = R
                 /\ ret.val.fields_failed =
                        Cardinality({i \in 1..R : FieldFails(i)})

C13_Witness ==
    /\ Extracting
    /\ ret.kind = "Err"
    /\ Len(SchemaRules) = 2
    /\ Aborting(1)
    /\ SchemaRules[1].default_value # None
    /\ Aborting(2)
    /\ FieldOutcome(2).err # FieldOutcome(1).err
    /\ ret.err = FieldOutcome(1).err

\* C14: in the data of an Ok result (rule names distinct), a rule's name is
\* a key exactly when the rule succeeded, the value being the extracted
\* value, or failed with a default, the value being the default; a rule that
\* failed without a default adds no key.
C14_DataKeys ==
    (Extracting /\ ret.kind = "Ok" /\ DistinctNames) =>
        LET data == ret.val.data.v
            R == Len(SchemaRules)
        IN /\ ret.val.data.t = "object"
           /\ DOMAIN data \subseteq {SchemaRules[i].name : i \in 1..R}
           /\ \A i \in 1..R :
                LET rule == SchemaRules[i]
                IN IF ~FieldFails(i)
                   THEN /\ rule.name \in DOMAIN data
                        /\ data[rule.name] = FieldOutcome(i).val
                   ELSE IF rule.default_value # None
                   THEN /\ rule.name \in DOMAIN data
                        /\ data[rule.name] = rule.default_value[1]
                   ELSE rule.name \notin DOMAIN data

C14_Witness ==
    /\ Extracting
    /\ ret.kind = "Ok"
    /\ DistinctNames
    /\ Len(SchemaRules) = 2
    /\ FieldFails(1)
    /\ SchemaRules[1].default_value = None
    /\ ~FieldFails(2)
    /\ SchemaRules[2].default_value # None
    /\ DOMAIN ret.val.data.v = {SchemaRules[2].name}
    /\ ret.val.data.v[SchemaRules[2].name]
           = String(<< "\"" >> \o S_extracted_ \o << "i", "d", "\"" >>)

\* The elements of a document that a selector matches, in document order.
Matched(data, selector) ==
    {i \in 1..Len(data) : data[i].selector = selector}

\* C15: extract_field fetches the raw value from the document through the
\* rule's selector: a rule whose selector matches nothing in the document
\* fails.
C15_UnmatchedSelectorFails ==
    (call.fn = "extract_field" /\ ret # NotReturned
     /\ Matched(call.data, call.rule.selector) = {}) =>
        ret.kind = "Err"

\* C16: extract_multiple returns a ValidationError when schema.multiple is
\* false; when it is true and the extraction succeeds it returns one result
\* per element matched by root_selector, keeping the first max_array_size.
C16_OneResultPerMatch ==
    (call.fn = "extract_multiple" /\ ret # NotReturned) =>
        IF ~call.schema.multiple
        THEN ret.kind = "Err" /\ ret.err.type = "ValidationError"
        ELSE ret.kind = "Ok" =>
                LET matches == Cardinality(Matched(call.data,
                                   call.schema.root_selector[1]))
                IN Len(ret.val) =
                       IF call.cfg.max_array_size = None THEN matches
                       ELSE Min(matches, call.cfg.max_array_size[1])

\* ---------------------------------------------------------------- transformer
Filtering == call.fn = "filter" /\ ret # NotReturned

\* The records of data that satisfy every filter, in their original order.
Satisfying(data, filters) ==
    SelectSeq(data, LAMBDA item :
                        \A k \in 1..Len(filters) :
                            apply_filter(item, filters[k]))

\* C17: filter(data, [f1, f2]) equals filter(filter(data, [f1]), [f2]) and
\* is the records that satisfy both f1 and f2, in their original order,
\* whatever the order of the two filters; an empty filter list returns the
\* data unchanged.
C17_FilterConjunction ==
    Filtering =>
        /\ ret.kind = "Ok"
        /\ ret.val = Satisfying(call.data, call.filters)
        /\ call.filters = << >> => ret.val = call.data
        /\ Len(call.filters) = 2 =>
              LET f1 == call.filters[1]
                  f2 == call.filters[2]
              IN /\ ret.val
                      = filter(filter(call.data, << f1 >>).val, << f2 >>).val
                 /\ ret.val = filter(call.data, << f2, f1 >>).val

C17_Witness ==
    /\ Filtering
    /\ Len(call.filters) = 2
    /\ Len(call.data) = 3
    /\ Len(filter(call.data, << call.filters[1] >>).val) = 2
    /\ Len(filter(call.data, << call.filters[2] >>).val) = 2
    /\ Len(ret.val) = 1
    /\ ret.val = << call.data[2] >>

Aggregating == call.fn = "aggregate" /\ ret # NotReturned

RECURSIVE Total(_)
Total(numbers) ==
    IF numbers = << >> THEN 0 ELSE Head(numbers).v + Total(Tail(numbers))

\* C18: Sum is the sum of the numeric values of the field, Count the number
\* of records in which the field is present, and Average the arithmetic mean
\* of the numeric values (their sum over the number of values summed), also
\* when some records hold a non-numeric value.
C18_Aggregates ==
    Aggregating =>
        LET agg == call.aggregations[1]
            present == SelectSeq(call.data,
                                 LAMBDA item : get(item, agg.field) # None)
            numerics == SelectSeq([i \in 1..Len(present) |->
                                       present[i].v[agg.field]],
                                  LAMBDA v : v.t = "number")
            out == ret.val.v[agg.output_field]
        IN /\ ret.kind = "Ok"
           /\ agg.function = "Sum" => out = Number(Total(numerics))
           /\ agg.function = "Count" => out = Number(Len(present))
           /\ (agg.function = "Average" /\ numerics # << >>) =>
                 /\ out.t = "number"
                 /\ out.v.num * Len(numerics) = Total(numerics) * out.v.den

Piping == call.fn = "execute_pipeline" /\ ret # NotReturned
PipelineSteps == call.pipeline.steps

\* The filter that the config of a filter step describes.
DescribedFilter(step_config) ==
    IF step_config = PriceAbove100
    THEN Some(Filter("price", "GreaterThan", Number(100)))
    ELSE None

\* C19: execute_pipeline applies to the data the filters carried in the
\* config of each filter step: after a pipeline of filter steps, every
\* record returned satisfies the predicate that each config describes.
C19_FilterStepFilters ==
    (Piping /\ ret.kind = "Ok"
     /\ \A k \in 1..Len(PipelineSteps) :
            PipelineSteps[k].step_type = "filter") =>
        \A k \in 1..Len(PipelineSteps) :
            DescribedFilter(PipelineSteps[k].config) # None =>
                \A i \in 1..Len(ret.val) :
                    apply_filter(ret.val[i],
                                 DescribedFilter(PipelineSteps[k].config)[1])

UnknownStep(k) ==
    PipelineSteps[k].step_type \notin {"filter", "map", "normalize"}

\* C20: execute_pipeline returns InvalidFilter exactly when some step has a
\* type other than filter, map and normalize: the error names the first such
\* step, wherever it stands and even when the data is empty; the steps
\* before it have run, no later step runs, and no data is returned.
C20_UnknownStepAborts ==
    Piping =>
        LET trace == PipelineLoop(PipelineSteps, PipelineLocals(call.data))
        IN /\ ret.kind \in {"Ok", "Err"}
           /\ ret.kind = "Err" <=> \E k \in 1..Len(PipelineSteps) :
                                        UnknownStep(k)
           /\ ret.kind = "Err" =>
                 LET first == CHOOSE k \in 1..Len(PipelineSteps) :
                                  UnknownStep(k)
                                  /\ \A j \in 1..(k - 1) : ~UnknownStep(j)
                 IN /\ ret = Err(InvalidFilter(
                               << "Unknown step type: ",
                                  PipelineSteps[first].step_type >>))
                    /\ trace.ran = first - 1
           /\ ret.kind = "Ok" => trace.ran = Len(PipelineSteps)

C20_Witness ==
    /\ Piping
    /\ call.data = << >>
    /\ Len(PipelineSteps) = 2
    /\ PipelineSteps[1].step_type = "sort"
    /\ PipelineSteps[2].step_type = "aggregate"
    /\ ret = Err(InvalidFilter(<< "Unknown step type: ", "sort" >>))

MappingFields == call.fn = "map_fields" /\ ret # NotReturned

\* The record after the first j mappings of the call.
AfterMappings(input, j) == MapInto(input, SubSeq(call.mappings, 1, j)).val

\* The value a mapping writes for the value it reads.
Written(value, mapping) ==
    IF mapping.transform_fn = None THEN value
    ELSE apply_simple_transform(value, mapping.transform_fn[1]).val

\* C21: when map_fields returns its records, there are as many as in the
\* input, in the same order; for every record and every mapping, taken in
\* order, a from_field that is present has its (optionally transformed)
\* value written to to_field and is not removed, every other field keeps its
\* value, and a mapping whose from_field is absent changes nothing.
C21_MapFieldsAdditive ==
    (MappingFields /\ ret.kind = "Ok") =>
        /\ Len(ret.val) = Len(call.data)
        /\ \A i \in 1..Len(call.data) :
             LET input == ObjectOrEmpty(call.data[i])
                 out == ret.val[i]
             IN /\ out.t = "object"
                /\ out.v = AfterMappings(input, Len(call.mappings))
                /\ DOMAIN input \subseteq DOMAIN out.v
                /\ \A k \in DOMAIN input :
                     (\A j \in 1..Len(call.mappings) :
                          call.mappings[j].to_field # k)
                         => out.v[k] = input[k]
                /\ \A j \in 1..Len(call.mappings) :
                     LET m == call.mappings[j]
                         before == AfterMappings(input, j - 1)
                         after == AfterMappings(input, j)
                     IN IF m.from_field \in DOMAIN before
                        THEN /\ DOMAIN after
                                  = (DOMAIN before) \cup {m.to_field}
                             /\ after[m.to_field]
                                  = Written(before[m.from_field], m)
                             /\ \A k \in (DOMAIN before) \ {m.to_field} :
                                    after[k] = before[k]
                        ELSE after = before

C21_Witness ==
    /\ MappingFields
    /\ ret.kind = "Ok"
    /\ Len(call.data) = 2
    /\ call.mappings = << Mapping("name", "label", Some("uppercase")),
                          Mapping("cost", "total", Some("to_string")) >>
    /\ call.data[1] = Object([price |-> Number(50), name |-> String(S_ab)])
    /\ DOMAIN ret.val[1].v = {"price", "name", "label"}
    /\ ret.val[1].v["label"] = String(<< "A", "B" >>)
    /\ ret.val[1].v["name"] = String(S_ab)
    /\ ret.val[1].v["price"] = Number(50)
    /\ call.data[2].t = "number"
    /\ ret.val[2].t = "object"
    /\ DOMAIN ret.val[2].v = {}

\* C30: a record that does not contain the filter's field is removed by
\* filter under every operator, NotEquals and NotContains included;
\* NotContains keeps a record exactly when the record has the field and the
\* field's value is not a string (or the filter's value is not) or does not
\* contain the filter's value.
C30_MissingFieldRemoved ==
    Filtering =>
        /\ \A i \in 1..Len(call.data) :
             (\E k \in 1..Len(call.filters) :
                  get(call.data[i], call.filters[k].field) = None)
                 => \A j \in 1..Len(ret.val) : ret.val[j] # call.data[i]
        /\ (Len(call.filters) = 1 /\ call.filters[1].operator = "NotContains")
             => ret.val =
                  SelectSeq(call.data, LAMBDA item :
                      LET f == call.filters[1]
                          field == get(item, f.field)
                      IN /\ field # None
                         /\ \/ as_str(field[1]) = None
                            \/ as_str(f.value) = None
                            \/ ~contains(field[1].v, f.value.v))

C30_Witness ==
    /\ Filtering
    /\ Len(call.filters) = 1
    /\ call.filters[1].operator = "NotContains"
    /\ Len(call.data) = 3
    /\ get(call.data[1], call.filters[1].field) = None
    /\ as_f64(UnwrapOr(get(call.data[2], call.filters[1].field), Null)) # None
    /\ as_str(UnwrapOr(get(call.data[3], call.filters[1].field), Null)) # None
    /\ ret.val = << call.data[2] >>

\* ---------------------------------------------------------------- batch tasks
EarlyReturn == bret.kind = "Err"

\* C26: a task that holds its slot is never cancelled: it keeps the slot
\* until it finishes, also after process_batch has returned early with an
\* error; the tasks pending or running at that moment all run to completion
\* and give their slots back.
C26_TasksOutliveEarlyReturn ==
    /\ [][\A i \in 1..n : Holding(i) => (Holding(i)' \/ Finished(i)')]_vars
    /\ <>[](EarlyReturn => (AllSettled /\ permits = config.max_concurrent))

C26_Witness ==
    /\ EarlyReturn
    /\ n = 2
    /\ Finished(1)
    /\ Holding(2)
    /\ permits = config.max_concurrent - 1

\* C29: whatever the BatchConfig, max_concurrent = 0 included, process_batch
\* eventually returns.
C29_BatchReturns == <>(bret # NotReturned)

\* ---------------------------------------------------------------- patterns
ValidRegex(pattern) == Regex_new(pattern).kind = "Ok"

FieldExtracted == call.fn = "extract_field" /\ ret # NotReturned

RegexOf(t) == SubSeq(t, Len(S_regex_) + 1, Len(t))

InvalidRegexStep(t) == starts_with(t, S_regex_) /\ ~ValidRegex(RegexOf(t))

\* C28: a pattern or a regex: transformation that is not a regular
\* expression never makes extract_field fail: with validate_patterns on, the
\* field comes out as it does without the pattern, and a value that goes
\* through an invalid regex: transformation comes out whole.
C28_InvalidPatternMatchesAll ==
    FieldExtracted =>
        LET rule == call.rule
            raw == extract_raw_value(call.data, rule).val
        IN /\ (rule.pattern # None /\ ~ValidRegex(rule.pattern[1]))
                => ret = extract_field(call.data,
                                       [rule EXCEPT !.pattern = None],
                                       call.cfg)
           /\ \A t \in {rule.transformations[i] :
                           i \in 1..Len(rule.transformations)} :
                InvalidRegexStep(t)
                    => /\ apply_transformation(raw, t) = Success(raw)
                       /\ ret.kind = "Err" => ret.err.type # "PatternError"

C28_Witness ==
    /\ FieldExtracted
    /\ call.cfg.validate_patterns
    /\ call.rule.pattern = Some(<< "[", "a" >>)
    /\ InvalidRegexStep(call.rule.transformations[2])
    /\ ret = Success(Number(1))

\* ---------------------------------------------------------------- shared cache
Threads == DOMAIN call

InLookup(t) == call[t].pc # "call"

\* C27: with the calls of several threads interleaved, the lookup-or-insert
\* is atomic: one thread at a time is between lock and return, a pattern
\* is compiled and put in the map once, an entry is never replaced or
\* removed, and every call on a pattern, apply_regex or validate_pattern,
\* works on that one entry.
C27_CacheAtomic ==
    /\ [](\A t, u \in Threads : (InLookup(t) /\ InLookup(u)) => t = u)
    /\ [](\A p \in DOMAIN regex_cache.map :
             /\ regex_cache.map[p].serial = 1
             /\ regex_cache.map[p].regex = CompileOrFallback(p))
    /\ [](\A t \in Threads : \A i \in 1..Len(ret[t]) :
             /\ ret[t][i].pattern \in DOMAIN regex_cache.map
             /\ ret[t][i].entry = regex_cache.map[ret[t][i].pattern])
    /\ [][\A p \in DOMAIN regex_cache.map :
             /\ p \in DOMAIN regex_cache'.map
             /\ regex_cache'.map[p] = regex_cache.map[p]]_vars

C27_Witness ==
    /\ Threads = {1, 2}
    /\ call[1].todo = << >>
    /\ call[2].todo = << >>
    /\ Len(ret[1]) = 2
    /\ ret[1][1].fn = "validate_pattern"
    /\ ret[1][2].fn = "apply_regex"
    /\ ret[1][2].pattern = << "a" >>
    /\ Len(ret[2]) = 2
    /\ ret[2][1].pattern = << "a" >>
    /\ ret[2][1].fn = "apply_regex"
    /\ ret[2][2].pattern = << "(" >>
    /\ DOMAIN regex_cache.map = {<< "a" >>, << "(" >>}
    /\ regex_cache.guard = None

\* ---------------------------------------------------------------- parser
ParserReturned(fn) == call.fn = fn /\ ret # NotReturned

\* The elements of a subtree, in document order.
RECURSIVE ElementsOf(_)
ElementsOf(node) ==
    (IF IsElement(node) THEN << node >> ELSE << >>)
    \o JoinAll([i \in 1..Len(node.children) |-> ElementsOf(node.children[i])])

CarriesId(node, id_name) ==
    "id" \in DOMAIN node.attributes /\ node.attributes["id"] = id_name

\* C22: select with a '#id' selector returns the first element in document
\* order whose id is the name, and never more than one element.
C22_IdSelectsFirstOnly ==
    (ParserReturned("select_css") /\ Head(call.selector) = "#") =>
        LET id_name == Tail(call.selector)
            carriers == SelectSeq(ElementsOf(call.html.document),
                                  LAMBDA e : CarriesId(e, id_name))
        IN /\ ret.kind = "Ok"
           /\ Len(ret.val) <= 1
           /\ carriers # << >> =>
                ret.val = << element_to_parsed(carriers[1], 0, call.cfg).val >>

\* The depth of the deepest element below a node that is at depth.
RECURSIVE Deepest(_, _)
Deepest(node, depth) ==
    LET below == {Deepest(node.children[i], depth + 1) :
                     i \in {j \in 1..Len(node.children) :
                               IsElement(node.children[j])}}
    IN IF below = {} THEN depth
       ELSE CHOOSE d \in below : \A e \in below : e <= d

\* C23: with max_depth configured, parse_html fails with ParseFailed exactly
\* for the documents that have an element nested deeper than max_depth.
C23_DepthGuard ==
    (/\ ParserReturned("parse_html")
     /\ ~call.html.is_empty
     /\ call.cfg.max_depth # None) =>
        IF Deepest(call.html.document, 0) > call.cfg.max_depth[1]
        THEN ret.kind = "Err" /\ ret.err.type = "ParseFailed"
        ELSE ret.kind = "Ok"

\* C24: extract_attribute and extract_attributes fail with ElementNotFound
\* when the selector matches nothing; otherwise they give the attribute of
\* the matched elements that have it, extract_attribute that of the first
\* of them.
C24_AttributesOfMatches ==
    (ParserReturned("extract_attribute") \/ ParserReturned("extract_attributes")) =>
        LET matched == select_css(call.html, call.selector, call.cfg).val
            having == SelectSeq(matched, LAMBDA e : HasAttribute(e, call.attr))
            values == [i \in 1..Len(having) |-> having[i].attributes[call.attr]]
        IN IF matched = << >>
           THEN ret.kind = "Err" /\ ret.err.type = "ElementNotFound"
           ELSE IF call.fn = "extract_attributes" THEN ret = Success(values)
           ELSE having # << >> => ret = Success(values[1])

\* ---- search
Searched == ParserReturned("search_content")

\* Offset of the first character of line k (1-based) of the text.
RECURSIVE LineOffset(_, _)
LineOffset(ls, k) ==
    IF k = 1 THEN 0 ELSE LineOffset(ls, k - 1) + Len(ls[k - 1]) + 1

\* The term stands at position p of the line, between word boundaries when
\* whole words are asked for.
Occurrence(line, term, cfg, p) ==
    LET q == p + Len(term)
        found == SubSeq(line, p, q - 1)
    IN /\ p >= 1 /\ q - 1 <= Len(line)
       /\ \/ found = term
          \/ ~cfg.case_sensitive /\ to_lowercase(found) = to_lowercase(term)
       /\ cfg.whole_words => (WordBoundary(line, p) /\ WordBoundary(line, q))

ErrorErrors == S_error \o << " " >> \o S_error \o << "s" >>

\* C25: search_content lists the occurrences of a term, those between word
\* boundaries when whole_words is set, left to right without overlap, and
\* total_matches is their number: "error" in "error errors" is found once
\* with whole_words and twice without.
C25_WholeWords ==
    Searched =>
        \A i \in 1..Len(ret.val) :
            LET r == ret.val[i]
                term == call.terms[i]
                ls == lines(call.html)
                occ == {o \in [line : 1..Len(ls), p : 1..Len(call.html)] :
                           Occurrence(ls[o.line], term, call.cfg, o.p)}
                at(o) == LineOffset(ls, o.line) + o.p - 1
                listed == {r.matches[j].start_position :
                              j \in 1..Len(r.matches)}
            IN /\ r.term = term
               /\ r.total_matches = Len(r.matches)
               /\ listed \subseteq {at(o) : o \in occ}
               /\ \A j \in 1..Len(r.matches) :
                    /\ r.matches[j].end_position
                           = r.matches[j].start_position + Len(term)
                    /\ j > 1 => r.matches[j].start_position
                                    >= r.matches[j - 1].end_position
               /\ \A o \in occ :
                    at(o) \notin listed =>
                        \E j \in 1..Len(r.matches) :
                            /\ r.matches[j].start_position < at(o)
                            /\ at(o) < r.matches[j].end_position
               /\ (call.html = ErrorErrors /\ term = S_error) =>
                    r.total_matches = IF call.cfg.whole_words THEN 1 ELSE 2

C25_Witness ==
    /\ Searched
    /\ call.html = ErrorErrors
    /\ call.terms = << S_error >>
    /\ call.cfg.whole_words
    /\ ret.val[1].total_matches = 1
    /\ ret.val[1].matches[1].start_position = 0
    /\ ret.val[1].matches[1].end_position = 5

====
